---- MODULE Spec2Model ----
(***************************************************************************)
(* A model of the f-string parser of mys/parser/string_parser.c: the      *)
(* literal scanner (fstring_find_literal), the expression scanner         *)
(* (fstring_find_expr), the expression compiler (fstring_compile_expr)    *)
(* and the assembler (FstringParser_Init / ConcatAndDel / ConcatFstring / *)
(* Finish / Dealloc), driven by a caller that hands over the tokens of    *)
(* one string atom in order.                                               *)
(*                                                                         *)
(* Bytes are one-character strings, texts are sequences of bytes, and a   *)
(* pointer into the token body is a 1-based index: body[i] is the byte    *)
(* at fstr + i - 1 and End is the index of the byte `end` points at.      *)
(* An optional text (a PyObject* that may be NULL) is a sequence holding  *)
(* zero or one text.                                                       *)
(***************************************************************************)
EXTENDS Integers, Sequences, FiniteSets, TLC

\* ------------------------------------------------------------------ bounds

\* Longest body over BraceAlphabet handed to the assembler.
MaxLen == 7
\* Longest body over OperatorAlphabet, BracketAlphabet and ScanAlphabet.
MaxOperatorLen == 4
MaxBracketLen == 5
MaxScanLen == 5
\* Longest run of spaces after the "=" of a self-documenting expression.
MaxSpace == 2
\* A token handed to parsestr: the letters before its opening quote, and
\* the bytes from there on.
MaxPrefixLen == 2
MaxRestLen == 4
\* The bytes of a regex token, and of an f-string token, after the prefix.
MaxRegexLen == 7
MaxFormatLen == 7
\* The body of the f-string that follows a prefixed token.
MaxKindLen == 5
\* Bodies that hold newlines, the shorter ones "=" too; the lines a token
\* begins on.
MaxLinesLen == 7
MaxSelfDocLen == 5
MaxLineno == 3
\* Sources of decode_unicode_with_escapes.
MaxSourceLen == 5
\* Calls of ExprList_Append on one list.
MaxAppends == 13
\* What follows the expression of a replacement field.
MaxTailLen == 3
\* Expressions of quotes and brackets: the bytes after the opening brace.
MaxQuoteLen == 6
\* Atoms of tokens some of which hold an empty text.
MaxPieces == 4
\* Bodies of literal text with escapes and names.
MaxLiteralLen == 5
\* Raw bodies of literal text, doubled braces and replacement fields.
MaxRoundLen == 5
\* Bodies of braces, quotes and escapes, each run to its end.
MaxLiveLen == 4
\* Bodies whose scanning looks ahead of the cursor and skips blanks.
MaxCursorLen == 4
\* Bodies whose expressions are compiled step by step.
MaxCompileLen == 6
\* An atom of plain tokens: their number, and the length of each.
MaxPlainTokens == 3
MaxPlainLen == 2
\* An atom of several tokens: their number, and the bytes of all of them.
MaxTokens == 2
MaxTotal == 5

\* The tokenizer's bound on bracket nesting, and the number of expressions an
\* ExprList holds inline: small here so that the branches taken beyond them
\* are reachable.
MAXLEVEL == 2
EXPRLIST_N_CACHED == 5

\* ------------------------------------------------------------------- bytes

NUL == "NUL"
DQUOTE == "\""
SQUOTE == "'"
BACKSLASH == "\\"

\* Py_ISSPACE
Py_ISSPACE(c) == c \in {" ", "\t", "\n", "\f", "\r", "VT"}

\* Optional values: NULL and a value.
NULL == <<>>
Some(x) == <<x>>
IsNull(o) == Len(o) = 0
Val(o) == o[1]

Strings(A, n) == UNION {[1..k -> A] : k \in 0..n}

\* ------------------------------------------------------------------- nodes

NullNode == [type |-> "NULL"]
Mys_Constant(value, kind) == [type |-> "Constant", value |-> value, kind |-> kind]
Mys_FormattedValue(value, conversion, format_spec) ==
    [type |-> "FormattedValue", value |-> value, conversion |-> conversion,
     format_spec |-> format_spec]
Mys_JoinedStr(values) == [type |-> "JoinedStr", values |-> values]

\* The conversion of a FormattedValue: -1 or a character.
NoConversion == "-1"

\* ------------------------------------------------------------------ inputs

\* A token: the bytes before its opening quote, whether it is an f-string,
\* and its text: for an f-string the body between the quotes (what parsestr
\* hands back as fstr/fstrlen), otherwise the decoded value.
FTok(body) == [prefix |-> <<"f">>, f |-> TRUE, text |-> body]
STok(text) == [prefix |-> <<>>, f |-> FALSE, text |-> text]
\* A plain token whose bytes begin with the prefix p.
PTok(p, text) == [prefix |-> p, f |-> FALSE, text |-> text]

BraceAlphabet == {"{", "}", "a", ":"}
ShortAlphabet == {"{", "}", "a"}
OperatorAlphabet == {"{", "}", "a", "!", "=", "<", ">", ":"}
BracketAlphabet == {"{", "}", "(", ")", "[", "]", "'"}
ScanAlphabet == {"{", "}", "(", "'", "#", BACKSLASH}

TokensOfLen(k) ==
    {FTok(b) : b \in [1..k -> ShortAlphabet]}
        \cup (IF k <= 1 THEN {STok([i \in 1..k |-> "a"])} ELSE {})

VARIABLES
    tokens,           \* the tokens of the atom, in source order
    raw,              \* the raw flag handed to ConcatFstring
    feature_version,  \* p->feature_version
    tk,               \* the token the caller is at
    pc,               \* where control is
    lvl,              \* recurse_lvl of the running ConcatFstring
    str,              \* *str, the cursor shared by every level
    state,            \* the FstringParser of the running ConcatFstring
    loc,              \* the locals of the running loop iteration
    stack,            \* the suspended outer activations
    escalate,         \* the warning filter turns a DeprecationWarning into an error
    err,              \* the error raised, "" while there is none
    ret,              \* what Finish returned to the caller
    t_bytes,          \* t->bytes of the token handed to parsestr
    parsed,           \* what parsestr returned and stored through its out-parameters
    cx,               \* fstring_compile_expr step by step: its position and what it holds
    xl,               \* an ExprList driven on its own: the list, the nodes given to it
    dec               \* decode_unicode_with_escapes step by step: s, the buffer, its position

vars == <<tokens, raw, feature_version, escalate, tk, pc, lvl, str, state, loc, stack, err, ret,
          t_bytes, parsed, cx, xl, dec>>

\* The body being parsed, the index `end` points at, and the byte at an
\* index: the closing quote sits at End, and nothing of the token after it.
Body == IF tk \in 1..Len(tokens) THEN tokens[tk].text ELSE <<>>
End == Len(Body) + 1
At(i) == IF i \in 1..Len(Body) THEN Body[i] ELSE IF i = End THEN DQUOTE ELSE NUL

\* ------------------------------------------------------ expression location

\* t->bytes of an f-string token: the prefix, the body and the quotes about
\* it (one or three on each side: they hold no newline).
TokenBytes(t) == tokens[t].prefix \o <<DQUOTE>> \o tokens[t].text \o <<DQUOTE>>

\* strstr(parent_str, expr_str): the index of the first occurrence, 0 when
\* there is none.
strstr(parent_str, expr_str) ==
    LET n == Len(expr_str)
        here(i) == SubSeq(parent_str, i, i + n - 1) = expr_str
        found == {i \in 1..(Len(parent_str) - n + 1) : here(i)}
    IN  IF found = {} THEN 0 ELSE CHOOSE i \in found : \A j \in found : i <= j

\* fstring_find_expr_location: *p_lines and *p_cols.
fstring_find_expr_location(parent_str, expr_str) ==
    LET substr == strstr(parent_str, expr_str)
        at(i) == IF i \in 1..Len(parent_str) THEN parent_str[i] ELSE NUL
        \* the first byte after the brace that is "}", a newline or no blank
        stop == CHOOSE i \in (substr + 1)..(Len(parent_str) + 1) :
                    /\ at(i) \notin {" ", "\t", "\f"}
                    /\ \A j \in (substr + 1)..(i - 1) : at(j) \in {" ", "\t", "\f"}
        newline_after_brace == at(stop) \in {"}", "\n"}
        \* the last newline at or before substr, else the first byte
        start == IF \E i \in 2..substr : at(i) = "\n"
                 THEN CHOOSE i \in 2..substr :
                          at(i) = "\n" /\ \A j \in (i + 1)..substr : at(j) # "\n"
                 ELSE 1
    IN  IF substr = 0 THEN [lines |-> 0, cols |-> 0]
        ELSE [lines |-> Cardinality({i \in 1..(substr - 1) : at(i) = "\n"}),
              cols |-> IF newline_after_brace THEN 0 ELSE substr - start]

\* p2->starting_lineno for an expression of a token that begins on line lineno.
starting_lineno(lineno, lines) == lineno + lines - 1

\* What the expression parser returns for the bytes [first, last] of token
\* tok, and the location it was started at.
ExprNode(tok, first, last) ==
    LET at == fstring_find_expr_location(
                  TokenBytes(tok), <<"{">> \o SubSeq(tokens[tok].text, first, last) \o <<"}">>)
    IN  [type |-> "Expr", tok |-> tok, first |-> first, last |-> last,
         lines |-> at.lines, cols |-> at.cols]

\* ---------------------------------------------------------- escape decoder

\* The names the Unicode database knows, among those the alphabets can spell.
KnownNames == {<<"a">>}

\* Index of the first "}" of b at or after i, 0 when there is none.
FirstClose(b, i) ==
    IF \E j \in i..Len(b) : b[j] = "}"
    THEN CHOOSE j \in i..Len(b) : b[j] = "}" /\ \A k \in i..(j - 1) : b[k] # "}"
    ELSE 0

\* PyUnicode_DecodeUnicodeEscape on ASCII bytes, after the first pass of
\* decode_unicode_with_escapes, which copies ASCII bytes as they are and
\* rewrites a backslash that ends the source to \u005c. warn: an unknown
\* escape was met (it is kept, backslash and character).  A backslash and
\* the newline after it give nothing.
RECURSIVE DecodeUnicodeEscape(_)
DecodeUnicodeEscape(b) ==
    IF Len(b) = 0 THEN [ok |-> TRUE, text |-> <<>>, warn |-> FALSE]
    ELSE IF Head(b) # BACKSLASH
    THEN LET r == DecodeUnicodeEscape(Tail(b))
         IN  [r EXCEPT !.text = <<Head(b)>> \o r.text]
    ELSE IF Len(b) = 1 THEN [ok |-> TRUE, text |-> <<BACKSLASH>>, warn |-> FALSE]
    ELSE LET c == b[2]
             rest == DecodeUnicodeEscape(SubSeq(b, 3, Len(b)))
             close == FirstClose(b, 4)
         IN  IF c \in {BACKSLASH, SQUOTE, DQUOTE}
             THEN [rest EXCEPT !.text = <<c>> \o rest.text]
             ELSE IF c = "N"
             THEN IF Len(b) >= 3 /\ b[3] = "{" /\ close # 0
                     /\ SubSeq(b, 4, close - 1) \in KnownNames
                  THEN LET r == DecodeUnicodeEscape(SubSeq(b, close + 1, Len(b)))
                       IN  [r EXCEPT !.text = <<"NAMED">> \o r.text]
                  ELSE [ok |-> FALSE, text |-> <<>>, warn |-> FALSE]
             ELSE IF c = "\n" THEN rest
             ELSE IF c = "a" THEN [rest EXCEPT !.text = <<"BEL">> \o rest.text]
             ELSE IF c = "r" THEN [rest EXCEPT !.text = <<"\r">> \o rest.text]
             ELSE [rest EXCEPT !.text = <<BACKSLASH, c>> \o rest.text, !.warn = TRUE]

\* The literal bytes [lo, hi) of the body decoded as fstring_find_literal's
\* `done:` does: UTF-8 alone when raw, else with escapes; NULL on failure.
\* decode_literal that decodes the escapes of a raw body too.
decode_literal_Always(lo, hi) ==
    LET bytes == SubSeq(Body, lo, hi - 1)
        d == DecodeUnicodeEscape(bytes)
    IN  IF d.ok /\ ~(d.warn /\ escalate) THEN Some(d.text)
        ELSE NULL

decode_literal(lo, hi) ==
    LET bytes == SubSeq(Body, lo, hi - 1)
        d == DecodeUnicodeEscape(bytes)
    IN  IF raw THEN Some(bytes)
        ELSE IF d.ok /\ ~(d.warn /\ escalate) THEN Some(d.text)
        ELSE NULL

\* ---------------------------------------------------------------- parsestr

\* size_t arithmetic, on a 16-bit word: the tokens are far shorter than
\* either word, and what matters is that 0 - 1 is the largest value.
SizeModulus == 2^16
INT_MAX == 2^15 - 1
Size(n) == n % SizeModulus
\* (Py_ssize_t)n
ToSsize(n) == IF n >= SizeModulus \div 2 THEN n - SizeModulus ELSE n

\* A byte that is no ASCII and no valid UTF-8.
HIGH == "0xFF"

Py_ISALPHA(c) ==
    c \in {"a", "b", "c", "e", "f", "i", "r", "u", "x", "B", "C", "E", "F", "R", "U"}

\* s[i] for the token bytes bs, s being the offset of its first byte: the
\* terminating NUL follows the last byte.
B(bs, i) == IF i \in 0..(Len(bs) - 1) THEN bs[i + 1] ELSE NUL

\* The bytes [s, s + n) of the token.
Bytes(bs, s, n) == SubSeq(bs, s + 1, s + n)

\* The locals of parsestr before the prefix loop.
NoPrefix(bs) ==
    [s |-> 0, quote |-> B(bs, 0), fmode |-> FALSE, bytesmode |-> FALSE, rawmode |-> FALSE,
     remode |-> FALSE, cmode |-> FALSE]

\* A prefix loop in which c sets char mode alone.
parsestr_prefix_iter_CNotRaw(bs, l) ==
    LET next == [l EXCEPT !.s = l.s + 1, !.quote = B(bs, l.s + 1)]
    IN  IF l.quote \in {"b", "B"} THEN [next EXCEPT !.bytesmode = TRUE]
        ELSE IF l.quote \in {"u", "U"} THEN next
        ELSE IF l.quote \in {"r", "R"}
        THEN IF next.quote \in {"e", "E"}
             THEN [next EXCEPT !.s = l.s + 2, !.quote = B(bs, l.s + 2),
                               !.rawmode = TRUE, !.remode = TRUE]
             ELSE [next EXCEPT !.rawmode = TRUE]
        ELSE IF l.quote \in {"f", "F"} THEN [next EXCEPT !.fmode = TRUE]
        ELSE [next EXCEPT !.cmode = TRUE]

\* One iteration of the prefix loop at a prefix letter.
parsestr_prefix_iter(bs, l) ==
    LET next == [l EXCEPT !.s = l.s + 1, !.quote = B(bs, l.s + 1)]
    IN  IF l.quote \in {"b", "B"} THEN [next EXCEPT !.bytesmode = TRUE]
        ELSE IF l.quote \in {"u", "U"} THEN next
        ELSE IF l.quote \in {"r", "R"}
        THEN IF next.quote \in {"e", "E"}
             THEN [next EXCEPT !.s = l.s + 2, !.quote = B(bs, l.s + 2),
                               !.rawmode = TRUE, !.remode = TRUE]
             ELSE [next EXCEPT !.rawmode = TRUE]
        ELSE IF l.quote \in {"f", "F"} THEN [next EXCEPT !.fmode = TRUE]
        ELSE [next EXCEPT !.rawmode = TRUE, !.cmode = TRUE]

\* while (!*bytesmode || !*rawmode || !*remode || !*cmode), leaving at the
\* first byte that is no prefix letter.
RECURSIVE parsestr_prefix(_, _)
parsestr_prefix(bs, l) ==
    IF l.bytesmode /\ l.rawmode /\ l.remode /\ l.cmode THEN l
    ELSE IF l.quote \in {"b", "B", "u", "U", "r", "R", "f", "F", "c", "C"}
    THEN parsestr_prefix(bs, parsestr_prefix_iter(bs, l))
    ELSE l

\* PyUnicode_DecodeUTF8Stateful(s, size): no object of a negative size.
PyUnicode_DecodeUTF8Stateful(bs, s, size) ==
    IF size < 0 THEN NULL
    ELSE IF \E i \in 0..(size - 1) : B(bs, s + i) = HIGH THEN NULL
    ELSE Some(Bytes(bs, s, size))

\* PyBytes_FromStringAndSize(s, size): no object of a negative size.
PyBytes_FromStringAndSize(bs, s, size) ==
    IF size < 0 THEN NULL ELSE Some(Bytes(bs, s, size))

\* PyBytes_DecodeEscape: a backslash that ends the bytes is an error, an
\* unknown escape is kept, backslash and character.
RECURSIVE PyBytes_DecodeEscape(_)
PyBytes_DecodeEscape(b) ==
    IF Len(b) = 0 THEN Some(<<>>)
    ELSE IF Head(b) # BACKSLASH
    THEN LET r == PyBytes_DecodeEscape(Tail(b))
         IN  IF IsNull(r) THEN NULL ELSE Some(<<Head(b)>> \o Val(r))
    ELSE IF Len(b) = 1 THEN NULL
    ELSE LET c == b[2]
             r == PyBytes_DecodeEscape(SubSeq(b, 3, Len(b)))
         IN  IF IsNull(r) THEN NULL
             ELSE IF c \in {BACKSLASH, SQUOTE, DQUOTE} THEN Some(<<c>> \o Val(r))
             ELSE IF c = "a" THEN Some(<<"BEL">> \o Val(r))
             ELSE IF c = "r" THEN Some(<<"\r">> \o Val(r))
             ELSE Some(<<BACKSLASH, c>> \o Val(r))

decode_bytes_with_escapes(bs, s, len) ==
    IF len < 0 THEN NULL ELSE PyBytes_DecodeEscape(Bytes(bs, s, len))

\* decode_unicode_with_escapes: the overflow check, the first pass (which
\* fails on bytes that are no UTF-8) and PyUnicode_DecodeUnicodeEscape.
decode_unicode_with_escapes(bs, s, len, filter) ==
    LET d == DecodeUnicodeEscape(Bytes(bs, s, len))
    IN  IF len > (SizeModulus - 1) \div 6 THEN NULL
        ELSE IF \E i \in 0..(len - 1) : B(bs, s + i) = HIGH THEN NULL
        ELSE IF d.ok /\ ~(d.warn /\ filter) THEN Some(d.text)
        ELSE NULL

\* The first pass of decode_unicode_with_escapes, on bytes that are ASCII
\* ("a", the backslash) or have their high bit set: the lead bytes of UTF-8
\* sequences of two, three and four bytes, and the continuation byte.
LEAD2 == "0xC3"
LEAD3 == "0xE2"
LEAD4 == "0xF0"
CONT == "0xA4"

\* *s & 0x80
HighBit(b) == b \in {LEAD2, LEAD3, LEAD4, CONT}

\* decode_utf8's loop: the index after the run of bytes with the high bit
\* set that starts at i.
RECURSIVE decode_utf8_end(_, _)
decode_utf8_end(src, i) ==
    IF i <= Len(src) /\ HighBit(src[i]) THEN decode_utf8_end(src, i + 1) ELSE i

\* PyUnicode_DecodeUTF8 on a run of such bytes: the number of code points,
\* -1 (NULL) when the run is not UTF-8.
RECURSIVE PyUnicode_DecodeUTF8(_)
PyUnicode_DecodeUTF8(run) ==
    IF Len(run) = 0 THEN 0
    ELSE LET more == IF Head(run) = LEAD2 THEN 1
                     ELSE IF Head(run) = LEAD3 THEN 2
                     ELSE IF Head(run) = LEAD4 THEN 3
                     ELSE -1
         IN  IF more = -1 \/ Len(run) < more + 1 THEN -1
             ELSE IF \E j \in 2..(more + 1) : run[j] # CONT THEN -1
             ELSE LET rest == PyUnicode_DecodeUTF8(SubSeq(run, more + 2, Len(run)))
                  IN  IF rest = -1 THEN -1 ELSE rest + 1

\* sprintf(p, "\\U%08x", chr) with twelve digits.
RECURSIVE EscapeCodePoint_Wide(_)
EscapeCodePoint_Wide(n) ==
    IF n = 0 THEN <<>>
    ELSE <<BACKSLASH, "U", "0", "0", "0", "0", "0", "0", "0", "0", "0", "0", "e", "4">>
             \o EscapeCodePoint_Wide(n - 1)

\* sprintf(p, "\\U%08x", chr) for each of n code points: ten bytes each.
RECURSIVE EscapeCodePoint(_)
EscapeCodePoint(n) ==
    IF n = 0 THEN <<>>
    ELSE <<BACKSLASH, "U", "0", "0", "0", "0", "0", "0", "e", "4">> \o EscapeCodePoint(n - 1)

\* One iteration of the first pass's loop, entered with s < end: k is
\* "next", "break" or "null" (the run is not UTF-8), s and buf as it leaves
\* them, high: the iteration took the branch that ends in the assertion.
decode_unicode_iter(src, s, buf) ==
    LET end == Len(src) + 1
        bs == src[s] = BACKSLASH
        s1 == IF bs THEN s + 1 ELSE s
        u005c == bs /\ (s1 >= end \/ HighBit(src[s1]))
        buf1 == IF bs
                THEN buf \o <<BACKSLASH>> \o (IF u005c THEN <<"u", "0", "0", "5", "c">> ELSE <<>>)
                ELSE buf
    IN  IF u005c /\ s1 >= end
        THEN [k |-> "break", s |-> s1, buf |-> buf1, high |-> FALSE]
        ELSE IF HighBit(src[s1])
        THEN LET e == decode_utf8_end(src, s1)
                 w_len == PyUnicode_DecodeUTF8(SubSeq(src, s1, e - 1))
             IN  IF w_len = -1
                 THEN [k |-> "null", s |-> e, buf |-> buf1, high |-> TRUE]
                 ELSE [k |-> "next", s |-> e, buf |-> buf1 \o EscapeCodePoint(w_len),
                       high |-> TRUE]
        ELSE [k |-> "next", s |-> s1 + 1, buf |-> buf1 \o <<src[s1]>>, high |-> FALSE]

\* decode_unicode_with_escapes called with the source src.  v is what it
\* returns: "object" for the text decoded from buf, or why it is NULL.
DecEntry(src) ==
    [src |-> src, s |-> 1, buf |-> <<>>, size |-> 6 * Len(src), pc |-> "entry",
     overflow |-> FALSE, v |-> "none"]

\* What parsestr returns and what it has stored through its out-parameters
\* by then; fstrlen is the caller's variable, which only the f-string return
\* writes.
Returned(r, msg, l, is_char, result, fstr, fstrlen, reflags) ==
    [ret |-> r, err |-> msg, fmode |-> l.fmode, bytesmode |-> l.bytesmode,
     rawmode |-> l.rawmode, remode |-> l.remode, cmode |-> l.cmode, is_char |-> is_char,
     result |-> result, fstr |-> fstr, fstrlen |-> fstrlen, reflags |-> reflags]

\* The flags of a regex token: flagslen, found by the scan from the end of
\* the bytes towards the opening quote at s[-1].
regex_flagslen(bs, s, len, quote) ==
    CHOOSE k \in 0..len :
        /\ B(bs, s + ToSsize(Size(len - k - 1))) = quote
        /\ \A j \in 0..(k - 1) : B(bs, s + ToSsize(Size(len - j - 1))) # quote

\* Lines 253-291: the f-string return and the decoding of any other token,
\* s being the first byte of the body and len its length.
parsestr_decode(bs, l, is_char, s, len, reflags, filter) ==
    LET rawmode == l.rawmode \/ ~\E i \in s..(Len(bs) - 1) : B(bs, i) = BACKSLASH
        m == [l EXCEPT !.rawmode = rawmode]
        result ==
            IF l.bytesmode
            THEN IF rawmode THEN PyBytes_FromStringAndSize(bs, s, ToSsize(len))
                 ELSE decode_bytes_with_escapes(bs, s, ToSsize(len))
            ELSE IF rawmode THEN PyUnicode_DecodeUTF8Stateful(bs, s, ToSsize(len))
                 ELSE decode_unicode_with_escapes(bs, s, len, filter)
    IN  IF l.fmode THEN Returned(0, "", l, is_char, NULL, Some(s), Some(ToSsize(len)), reflags)
        ELSE IF l.bytesmode /\ \E i \in s..(Len(bs) - 1) : B(bs, i) = HIGH
        THEN Returned(-1, "bytes can only contain ASCII literal characters.", m, is_char,
                      NULL, NULL, NULL, reflags)
        ELSE Returned(IF IsNull(result) THEN -1 ELSE 0, IF IsNull(result) THEN "decoder" ELSE "",
                      m, is_char, result, NULL, NULL, reflags)

\* Lines 229-251: the closing quote, and the two more of a triple quoted
\* string, len being the length of the bytes before the flags.
parsestr_quotes(bs, l, is_char, s, len0, reflags, filter) ==
    LET len1 == Size(len0 - 1)
        len2 == Size(len1 - 3)
        len3 == Size(len1 - 4)
        bad == Returned(-1, "PyErr_BadInternalCall", l, is_char, NULL, NULL, NULL, reflags)
    IN  IF B(bs, s + ToSsize(len1)) # l.quote THEN bad
        ELSE IF len1 >= 4 /\ B(bs, s) = l.quote /\ B(bs, s + 1) = l.quote
        THEN IF is_char
             THEN Returned(-1, "characters cannot be triple quoted", l, is_char,
                           NULL, NULL, NULL, reflags)
             ELSE IF B(bs, s + 2 + len2) # l.quote \/ B(bs, s + 2 + len3) # l.quote THEN bad
             ELSE parsestr_decode(bs, l, is_char, s + 2, len3, reflags, filter)
        ELSE parsestr_decode(bs, l, is_char, s, len1, reflags, filter)

\* _Mys_PyPegen_parsestr on the bytes bs of a token.
parsestr(bs, version, filter) ==
    LET first == NoPrefix(bs)
        l == IF Py_ISALPHA(first.quote) THEN parsestr_prefix(bs, first) ELSE first
        is_char == l.quote = SQUOTE
        s == l.s + 1
        len == Size(Len(bs) - s)
        flagslen == regex_flagslen(bs, s, len, l.quote)
        Early(msg) == Returned(-1, msg, l, is_char, NULL, NULL, NULL, NULL)
    IN  IF l.quote = SQUOTE /\ (l.fmode \/ l.bytesmode \/ l.rawmode \/ l.remode \/ l.cmode)
        THEN Returned(-1, "characters cannot have a prefix", l, FALSE, NULL, NULL, NULL, NULL)
        ELSE IF l.fmode /\ version < 6
        THEN Early("Format strings are only supported in Python 3.6 and greater")
        ELSE IF l.fmode /\ l.bytesmode THEN Early("PyErr_BadInternalCall")
        ELSE IF l.quote \notin {SQUOTE, DQUOTE} THEN Early("PyErr_BadInternalCall")
        ELSE IF len > INT_MAX THEN Early("string to parse is too long")
        ELSE IF l.remode
        THEN parsestr_quotes(bs, l, is_char, s, Size(len - flagslen),
                             PyUnicode_DecodeUTF8Stateful(bs, s + len - flagslen, flagslen),
                             filter)
        ELSE parsestr_quotes(bs, l, is_char, s, len, NULL, filter)

\* ---------------------------------------------------------- literal scanner

\* while (s < end && *s++ != '}') {}
SkipName(s) ==
    IF \E j \in s..(End - 1) : At(j) = "}"
    THEN (CHOOSE j \in s..(End - 1) : At(j) = "}" /\ \A k \in s..(j - 1) : At(k) # "}") + 1
    ELSE IF s < End THEN End ELSE s

\* find_literal_brace with both braces of a pair kept in the literal.
find_literal_brace_KeepsPair(ch, s, recurse_lvl) ==
    IF ch \in {"{", "}"}
    THEN IF recurse_lvl = 0 /\ s < End /\ At(s) = ch
         THEN [k |-> "doubled", s |-> s + 1, str |-> s + 1]
         ELSE IF recurse_lvl = 0 /\ ch = "}"
         THEN [k |-> "single", s |-> s, str |-> s - 1]
         ELSE [k |-> "break", s |-> s - 1, str |-> 0]
    ELSE [k |-> "continue", s |-> s, str |-> 0]

\* find_literal_brace with pairs recognised at every level.
find_literal_brace_AnyLevel(ch, s, recurse_lvl) ==
    IF ch \in {"{", "}"}
    THEN IF s < End /\ At(s) = ch
         THEN [k |-> "doubled", s |-> s, str |-> s + 1]
         ELSE IF recurse_lvl = 0 /\ ch = "}"
         THEN [k |-> "single", s |-> s, str |-> s - 1]
         ELSE [k |-> "break", s |-> s - 1, str |-> 0]
    ELSE [k |-> "continue", s |-> s, str |-> 0]

\* find_literal_brace without the test for a lone "}".
find_literal_brace_LoneAllowed(ch, s, recurse_lvl) ==
    IF ch \in {"{", "}"}
    THEN IF recurse_lvl = 0 /\ s < End /\ At(s) = ch
         THEN [k |-> "doubled", s |-> s, str |-> s + 1]
         ELSE [k |-> "break", s |-> s - 1, str |-> 0]
    ELSE [k |-> "continue", s |-> s, str |-> 0]

\* One iteration of fstring_find_literal's loop gives
\*   continue: loop again from s;  break: leave the loop with s;
\*   doubled: `goto done` with result 1, the literal ending at s and *str = str;
\*   single: the error for a lone "}", with *str = str;  warn: the warning failed.
\* Here the brace test of the iteration: ch is the byte read and s is past it.
find_literal_brace(ch, s, recurse_lvl) ==
    IF ch \in {"{", "}"}
    THEN IF recurse_lvl = 0 /\ s < End /\ At(s) = ch
         THEN [k |-> "doubled", s |-> s, str |-> s + 1]
         ELSE IF recurse_lvl = 0 /\ ch = "}"
         THEN [k |-> "single", s |-> s, str |-> s - 1]
         ELSE [k |-> "break", s |-> s - 1, str |-> 0]
    ELSE [k |-> "continue", s |-> s, str |-> 0]

\* One iteration of fstring_find_literal's loop, entered with s0 < end.
fstring_find_literal_iter(s0, recurse_lvl) ==
    LET esc == ~raw /\ At(s0) = BACKSLASH /\ s0 + 1 < End
        ch == IF esc THEN At(s0 + 1) ELSE At(s0)
        s == IF esc THEN s0 + 2 ELSE s0 + 1
    IN  IF esc /\ ch = "N"
        THEN IF s < End
             THEN IF At(s) = "{" THEN [k |-> "continue", s |-> SkipName(s + 1), str |-> 0]
                  ELSE [k |-> "break", s |-> s + 1, str |-> 0]
             ELSE [k |-> "break", s |-> s, str |-> 0]
        ELSE IF esc /\ ch = "{" /\ escalate
        THEN [k |-> "warn", s |-> s, str |-> 0]
        ELSE find_literal_brace(ch, s, recurse_lvl)

\* ------------------------------------------------------- expression scanner

UNINIT == "UNINIT"

\* Opens with every closer taken to match.
Opens_Any(opening, ch) == opening \in {"(", "[", "{"}

Opens(opening, ch) ==
    \/ opening = "(" /\ ch = ")"
    \/ opening = "[" /\ ch = "]"
    \/ opening = "{" /\ ch = "}"

\* Is (ch, next) one of != == <= >= ?
TwoCharOperator(ch, next) == ch \in {"!", "=", "<", ">"} /\ next = "="

\* One iteration of fstring_find_expr's for loop, entered with i = *str < end
\* and the scanner's locals l, gives k: "next" (go on to the loop's
\* increment), "break" or "error", and str: *str as the body leaves it.
Go(i, l) == [k |-> "next", str |-> i, err |-> "", l |-> l]
Raise(i, l, msg) == [k |-> "error", str |-> i, err |-> msg, l |-> l]

\* Triple without the test that the third byte lies before end.
Triple_Unguarded(i) == At(i + 1) = At(i) /\ At(i + 2) = At(i)

\* Do three equal quote characters start at i?
Triple(i) == i + 2 < End /\ At(i + 1) = At(i) /\ At(i + 2) = At(i)

\* The branches of the iteration outside a string, last first: a closing
\* bracket, else any other byte.
find_expr_close_bracket(i, l) ==
    LET ch == At(i)
        opening == l.parenstack[l.nested_depth - 1]
        popped == [l EXCEPT !.nested_depth = l.nested_depth - 1]
    IN  IF ch \in {"]", "}", ")"}
        THEN IF l.nested_depth = 0
             THEN Raise(i, l, "f-string: unmatched '" \o ch \o "'")
             ELSE IF Opens(opening, ch)
             THEN Go(i, popped)
             ELSE Raise(i, popped, "f-string: closing parenthesis '" \o ch
                                   \o "' does not match opening parenthesis '"
                                   \o opening \o "'")
        ELSE Go(i, l)

\* A byte that may end the expression at nesting depth 0.
find_expr_terminator(i, l) ==
    LET ch == At(i)
    IN  IF l.nested_depth = 0 /\ ch \in {"!", ":", "}", "=", ">", "<"}
        THEN IF i + 1 < End /\ TwoCharOperator(ch, At(i + 1))
             THEN Go(i + 1, l)
             ELSE IF i + 1 < End /\ ch \in {">", "<"}
             THEN Go(i, l)
             ELSE [Go(i, l) EXCEPT !.k = "break"]
        ELSE find_expr_close_bracket(i, l)

\* find_expr_comment without the test.
find_expr_comment_Allowed(i, l) == find_expr_terminator(i, l)

\* The comment character.
find_expr_comment(i, l) ==
    IF At(i) = "#"
    THEN Raise(i, l, "f-string expression part cannot include '#'")
    ELSE find_expr_terminator(i, l)

\* An opening bracket, with the test of the depth one bracket late.
find_expr_open_bracket_Late(i, l) ==
    IF At(i) \in {"[", "{", "("}
    THEN IF l.nested_depth > MAXLEVEL
         THEN Raise(i, l, "f-string: too many nested parenthesis")
         ELSE Go(i, [l EXCEPT !.parenstack[l.nested_depth] = At(i),
                              !.nested_depth = l.nested_depth + 1])
    ELSE find_expr_comment(i, l)

\* An opening bracket.
find_expr_open_bracket(i, l) ==
    IF At(i) \in {"[", "{", "("}
    THEN IF l.nested_depth >= MAXLEVEL
         THEN Raise(i, l, "f-string: too many nested parenthesis")
         ELSE Go(i, [l EXCEPT !.parenstack[l.nested_depth] = At(i),
                              !.nested_depth = l.nested_depth + 1])
    ELSE find_expr_comment(i, l)

\* find_expr_string that ends a string at either quote character.
find_expr_string_AnyQuote(i, l) ==
    LET ch == At(i)
    IN  IF l.quote_char # NUL
        THEN IF ch \in {SQUOTE, DQUOTE}
             THEN IF l.string_type = 3
                  THEN IF Triple(i)
                       THEN Go(i + 2, [l EXCEPT !.string_type = 0, !.quote_char = NUL])
                       ELSE Go(i, l)
                  ELSE Go(i, [l EXCEPT !.quote_char = NUL, !.string_type = 0])
             ELSE Go(i, l)
        ELSE IF ch \in {SQUOTE, DQUOTE}
        THEN IF Triple(i)
             THEN Go(i + 2, [l EXCEPT !.string_type = 3, !.quote_char = ch])
             ELSE Go(i, [l EXCEPT !.string_type = 1, !.quote_char = ch])
        ELSE find_expr_open_bracket(i, l)

\* find_expr_string that looks at a closing quote again instead of leaving the
\* string.
find_expr_string_Again(i, l) ==
    LET ch == At(i)
    IN  IF l.quote_char # NUL
        THEN IF ch = l.quote_char
             THEN IF l.string_type = 3
                  THEN IF Triple(i)
                       THEN Go(i + 2, [l EXCEPT !.string_type = 0, !.quote_char = NUL])
                       ELSE Go(i, l)
                  ELSE Go(i - 1, l)
             ELSE Go(i, l)
        ELSE IF ch \in {SQUOTE, DQUOTE}
        THEN IF Triple(i)
             THEN Go(i + 2, [l EXCEPT !.string_type = 3, !.quote_char = ch])
             ELSE Go(i, [l EXCEPT !.string_type = 1, !.quote_char = ch])
        ELSE find_expr_open_bracket(i, l)

\* Inside a string: its end; outside: the start of one.
find_expr_string(i, l) ==
    LET ch == At(i)
    IN  IF l.quote_char # NUL
        THEN IF ch = l.quote_char
             THEN IF l.string_type = 3
                  THEN IF Triple(i)
                       THEN Go(i + 2, [l EXCEPT !.string_type = 0, !.quote_char = NUL])
                       ELSE Go(i, l)
                  ELSE Go(i, [l EXCEPT !.quote_char = NUL, !.string_type = 0])
             ELSE Go(i, l)
        ELSE IF ch \in {SQUOTE, DQUOTE}
        THEN IF Triple(i)
             THEN Go(i + 2, [l EXCEPT !.string_type = 3, !.quote_char = ch])
             ELSE Go(i, [l EXCEPT !.string_type = 1, !.quote_char = ch])
        ELSE find_expr_open_bracket(i, l)

\* fstring_find_expr_iter with the backslash test made outside strings only.
fstring_find_expr_iter_OutsideStrings(i, l) ==
    IF At(i) = BACKSLASH /\ l.quote_char = NUL
    THEN Raise(i, l, "f-string expression part cannot include a backslash")
    ELSE find_expr_string(i, l)

\* The iteration: the backslash test comes first.
fstring_find_expr_iter(i, l) ==
    IF At(i) = BACKSLASH
    THEN Raise(i, l, "f-string expression part cannot include a backslash")
    ELSE find_expr_string(i, l)

\* NestedTooDeeply one level late.
NestedTooDeeply_Late(recurse_lvl) == recurse_lvl >= 3

\* fstring_find_expr's test on entry: can only nest one level deep.
NestedTooDeeply(recurse_lvl) == recurse_lvl >= 2

\* fstring_compile_expr's assertions on entry.
compile_expr_asserts(expr_start, expr_end) ==
    /\ expr_end >= expr_start
    /\ At(expr_start - 1) = "{"
    /\ At(expr_end) \in {"}", "!", ":", "="}

\* while (Py_ISSPACE(**str)) *str += 1
RECURSIVE SkipSpace(_)
SkipSpace(i) == IF Py_ISSPACE(At(i)) THEN SkipSpace(i + 1) ELSE i

\* AllWhitespace that finds no expression blank.
AllWhitespace_Never(expr_start, expr_end) == FALSE

\* fstring_compile_expr's test for an expression that is all whitespace.
AllWhitespace(expr_start, expr_end) ==
    \A i \in expr_start..(expr_end - 1) : At(i) \in {" ", "\t", "\n", "\f"}

\* fstring_find_expr from the `=` check to the format spec's start, with *str
\* at i after the expression was compiled.  k is "error", "spec" (a format
\* spec starts at str and fstring_parse is to be called) or "close".
fstring_find_expr_tail(i, expr_start) ==
    LET eq == At(i) = "="
        s1 == IF eq THEN SkipSpace(i + 1) ELSE i
        expr_text == IF eq THEN Some(SubSeq(Body, expr_start, s1 - 1)) ELSE NULL
        bang == At(s1) = "!"
        conversion == IF bang /\ s1 + 1 < End THEN At(s1 + 1) ELSE NoConversion
        s3 == IF bang THEN s1 + 2 ELSE s1
        out == [k |-> "close", str |-> s3, err |-> "", expr_text |-> expr_text,
                conversion |-> conversion]
        fail(at, msg) == [out EXCEPT !.k = "error", !.str = at, !.err = msg,
                                     !.expr_text = NULL]
    IN  IF eq /\ feature_version < 8
        THEN fail(i, "f-string: self documenting expressions are only supported in Python 3.8 and greater")
        ELSE IF bang /\ s1 + 1 >= End
        THEN fail(s1 + 1, "f-string: expecting '}'")
        ELSE IF bang /\ conversion \notin {"s", "r", "a"}
        THEN fail(s3, "f-string: invalid conversion character: expected 's', 'r', or 'a'")
        ELSE IF s3 >= End
        THEN fail(s3, "f-string: expecting '}'")
        ELSE IF At(s3) = ":"
        THEN IF s3 + 1 >= End THEN fail(s3 + 1, "f-string: expecting '}'")
             ELSE [out EXCEPT !.k = "spec", !.str = s3 + 1]
        ELSE out

\* ---------------------------------------------------------------- ExprList

\* A slot of a buffer that was never written.
Unwritten == [type |-> "UNINIT"]

\* The list: data is the buffer inside the struct, heap the allocated one
\* (<<>> while there is none), p says which of them l->p points to.
ExprList_Init ==
    [allocated |-> EXPRLIST_N_CACHED, size |-> 0, p |-> "data",
     data |-> [i \in 1..EXPRLIST_N_CACHED |-> Unwritten], heap |-> <<>>]

\* The buffer l->p points to.
Pointee(l) == IF l.p = "data" THEN l.data ELSE IF l.p = "heap" THEN l.heap ELSE <<>>

\* ExprList_Append whose growth copies all but the last element.
ExprList_Append_CopiesShort(l, exp) ==
    LET new_size == l.allocated * 2
        grown == IF l.size >= l.allocated
                 THEN [l EXCEPT !.p = "heap",
                                !.heap = [i \in 1..new_size |->
                                             IF i < l.size THEN Pointee(l)[i] ELSE Unwritten],
                                !.allocated = new_size]
                 ELSE l
    IN  IF grown.p = "data"
        THEN [grown EXCEPT !.data[l.size + 1] = exp, !.size = l.size + 1]
        ELSE [grown EXCEPT !.heap[l.size + 1] = exp, !.size = l.size + 1]

\* A successful ExprList_Append: when the buffer is full it is doubled, by
\* an allocation and a copy of the size elements of data the first time, by
\* a reallocation, which keeps the elements, afterwards.
ExprList_Append(l, exp) ==
    LET new_size == l.allocated * 2
        grown == IF l.size >= l.allocated
                 THEN IF l.p = "data"
                      THEN [l EXCEPT !.p = "heap",
                                     !.heap = [i \in 1..new_size |->
                                                  IF i <= l.size THEN l.data[i] ELSE Unwritten],
                                     !.allocated = new_size]
                      ELSE [l EXCEPT !.heap = [i \in 1..new_size |->
                                                  IF i <= Len(l.heap) THEN l.heap[i]
                                                  ELSE Unwritten],
                                     !.allocated = new_size]
                 ELSE l
    IN  IF grown.p = "data"
        THEN [grown EXCEPT !.data[l.size + 1] = exp, !.size = l.size + 1]
        ELSE [grown EXCEPT !.heap[l.size + 1] = exp, !.size = l.size + 1]

\* ExprList_Append when the allocation fails: the list is left without a
\* buffer and -1 is returned.
ExprList_Append_NoMemory(l) == [l EXCEPT !.p = "NULL", !.heap = <<>>]

ExprList_Dealloc(l) == [l EXCEPT !.p = "NULL", !.size = -1, !.heap = <<>>]

\* The elements of the list, in order.
ExprList_Items(l) == SubSeq(Pointee(l), 1, l.size)

\* The asdl sequence ExprList_Finish copies the expressions into.
ExprList_Finish(l) == ExprList_Items(l)

\* The assertions of ExprList_check_invariants.
ExprList_check_invariants(l) ==
    /\ l.size >= 0
    /\ l.p # "NULL"
    /\ l.size <= EXPRLIST_N_CACHED => l.p = "data"

\* The calls of PyMem_Free that ExprList_Dealloc makes: one for a buffer
\* that was allocated, none for the buffer inside the struct or for NULL.
ExprList_Dealloc_frees(l) == IF l.p = "heap" THEN 1 ELSE 0

\* The state after FstringParser_Init, with no node given to its list yet:
\* the list, the nodes appended, whether last_str is set, what the last
\* operation returned, the calls of PyMem_Free on the list's buffer, whether
\* an operation was entered with a failing assertion, and whether the state
\* is in use ("live"), finished, dropped, or the process aborted.
XlEntry ==
    [list |-> ExprList_Init, appended |-> <<>>, ret |-> 0, last_str |-> FALSE, frees |-> 0,
     dead_entry |-> FALSE, pc |-> "live"]

\* ----------------------------------------------------------- FstringParser

FstringParser_Init == [last_str |-> NULL, fmode |-> FALSE, expr_list |-> ExprList_Init]

FstringParser_Dealloc(st) ==
    [st EXCEPT !.last_str = NULL, !.expr_list = ExprList_Dealloc(st.expr_list)]

\* The first byte of a token's bytes.
TokenByte0(t) == IF Len(tokens[t].prefix) > 0 THEN tokens[t].prefix[1] ELSE DQUOTE

\* The Constant node make_str_node_and_del builds from the text s.
make_str_node_and_del(s, first_token) ==
    Mys_Constant(s, IF TokenByte0(first_token) = "u" THEN "u" ELSE "")

\* ConcatAndDel without the test for an empty text.
FstringParser_ConcatAndDel_KeepsEmpty(st, s) ==
    IF IsNull(st.last_str) THEN [st EXCEPT !.last_str = Some(s)]
    ELSE [st EXCEPT !.last_str = Some(Val(st.last_str) \o s)]

\* ConcatAndDel that puts the new text ahead of last_str.
FstringParser_ConcatAndDel_Prepends(st, s) ==
    IF Len(s) = 0 THEN st
    ELSE IF IsNull(st.last_str) THEN [st EXCEPT !.last_str = Some(s)]
    ELSE [st EXCEPT !.last_str = Some(s \o Val(st.last_str))]

\* ConcatAndDel that starts a new piece where it is to extend last_str.
FstringParser_ConcatAndDel_NewPiece(st, s) ==
    IF Len(s) = 0 THEN st
    ELSE IF IsNull(st.last_str) THEN [st EXCEPT !.last_str = Some(s)]
    ELSE [st EXCEPT !.last_str = Some(s),
                    !.expr_list = ExprList_Append(st.expr_list,
                                      Mys_Constant(Val(st.last_str), ""))]

\* The state after ConcatAndDel(state, str), str a text.
FstringParser_ConcatAndDel(st, s) ==
    IF Len(s) = 0 THEN st
    ELSE IF IsNull(st.last_str) THEN [st EXCEPT !.last_str = Some(s)]
    ELSE [st EXCEPT !.last_str = Some(Val(st.last_str) \o s)]

\* The pending literal made a Constant at the end of the expression list.
FlushLastStr(st, first_token) ==
    IF IsNull(st.last_str) THEN st
    ELSE [st EXCEPT !.last_str = NULL,
                    !.expr_list = ExprList_Append(st.expr_list,
                                      make_str_node_and_del(Val(st.last_str), first_token))]

\* The body of ConcatFstring's loop after fstring_find_literal_and_expr
\* returned result >= 0 with the locals l.  k is "continue" (result == 1),
\* "break" (no expression) or "loop" (the expression was appended).
ConcatFstring_body(st, l, first_token) ==
    LET st1 == IF IsNull(l.literal) THEN st
               ELSE FstringParser_ConcatAndDel(st, Val(l.literal))
        st2 == IF IsNull(l.expr_text) THEN st1
               ELSE FstringParser_ConcatAndDel(st1, Val(l.expr_text))
        st3 == FlushLastStr(st2, first_token)
    IN  IF l.result = 1 THEN [k |-> "continue", state |-> st2]
        ELSE IF l.expression = NullNode THEN [k |-> "break", state |-> st2]
        ELSE [k |-> "loop",
              state |-> [st3 EXCEPT !.expr_list = ExprList_Append(st3.expr_list, l.expression)]]

\* FstringParser_Finish: the node returned and the state left behind.
FstringParser_Finish(st, first_token) ==
    IF ~st.fmode
    THEN [node |-> make_str_node_and_del(
                       IF IsNull(st.last_str) THEN <<>> ELSE Val(st.last_str), first_token),
          state |-> [st EXCEPT !.last_str = NULL]]
    ELSE LET flushed == FlushLastStr(st, first_token)
         IN  [node |-> Mys_JoinedStr(ExprList_Finish(flushed.expr_list)),
              state |-> [flushed EXCEPT !.expr_list = ExprList_Dealloc(flushed.expr_list)]]

\* ----------------------------------------------------------------- actions

\* The locals of one iteration of ConcatFstring's loop, of the
\* fstring_find_literal call it starts with (s, literal_start, result,
\* literal) and of the fstring_find_expr call that may follow.
FreshLoc(s) ==
    [s |-> s, literal_start |-> s, result |-> 0, literal |-> NULL,
     expr_text |-> NULL, expression |-> NullNode,
     expr_start |-> 0, expr_end |-> 0, quote_char |-> NUL, string_type |-> 0,
     nested_depth |-> 0, parenstack |-> [i \in 0..(MAXLEVEL - 1) |-> UNINIT],
     conversion |-> NoConversion, simple_expression |-> NullNode,
     format_spec |-> NullNode]

\* parsestr was not called.
NotParsed == [ret |-> "none"]

\* fstring_compile_expr at its entry: no scratch buffer, tokenizer or parser
\* yet. str, tok and p2 are "none" (not assigned), "NULL", "live" or
\* "freed"; frees counts the calls that freed each, NULL passed to a free
\* function apart; null_deref: a NULL p2 was dereferenced.
CxEntry ==
    [pc |-> "entry", str |-> "none", tok |-> "none", p2 |-> "none", expr |-> "none",
     frees |-> [str |-> 0, tok |-> 0, p2 |-> 0], null_deref |-> FALSE]

InitAssemblerOnly(Raws, Versions, Filters) ==
    /\ raw \in Raws
    /\ feature_version \in Versions
    /\ escalate \in Filters
    /\ tk = 0
    /\ pc = "idle"
    /\ lvl = 0
    /\ str = 0
    /\ state = FstringParser_Init
    /\ loc = FreshLoc(0)
    /\ stack = <<>>
    /\ err = ""
    /\ ret = NullNode
    /\ cx = CxEntry
    /\ xl = XlEntry

InitAssembler(Raws, Versions, Filters) ==
    /\ InitAssemblerOnly(Raws, Versions, Filters)
    /\ dec = DecEntry(<<>>)

InitRest(Raws, Versions, Filters) ==
    /\ InitAssembler(Raws, Versions, Filters)
    /\ t_bytes = <<>>
    /\ parsed = NotParsed

InitWith(Atoms_, Raws, Versions, Filters) ==
    tokens \in Atoms_ /\ InitRest(Raws, Versions, Filters)

\* The atom is the tokens before followed by n more at most, of budget bytes
\* at most, and is not empty.
RECURSIVE AtomFrom(_, _, _)
AtomFrom(n, budget, before) ==
    \/ before # <<>> /\ tokens = before
    \/ /\ n > 0
       /\ \E k \in 0..budget : \E t \in TokensOfLen(k) :
              AtomFrom(n - 1, budget - k, Append(before, t))

\* What the assembler and the scanners never write.
inputs == <<tokens, raw, feature_version, escalate, t_bytes, parsed, cx, xl, dec>>

\* An error return: every nested fstring_parse deallocates its own state and
\* returns NULL, each fstring_find_expr and fstring_find_literal_and_expr
\* returns -1, and the caller's ConcatFstring returns -1 with its state as
\* it was.
Unwind(msg, at) ==
    /\ pc' = "failed"
    /\ err' = msg
    /\ str' = at
    /\ state' = IF Len(stack) = 0 THEN state ELSE stack[1].state
    /\ stack' = <<>>
    /\ lvl' = 0
    /\ loc' = FreshLoc(0)

Fail(msg, at) == Unwind(msg, at) /\ UNCHANGED <<inputs, tk, ret>>

\* The caller hands a plain token's text to ConcatAndDel.
Caller_ConcatAndDel ==
    /\ pc = "idle"
    /\ tk < Len(tokens)
    /\ ~tokens[tk + 1].f
    /\ tk' = tk + 1
    /\ state' = FstringParser_ConcatAndDel(state, tokens[tk + 1].text)
    /\ UNCHANGED <<inputs, pc, lvl, str, loc, stack, err, ret>>

\* The caller hands an f-string token's body to ConcatFstring at
\* recurse_lvl 0, which sets fmode and starts its first iteration.
Caller_ConcatFstring ==
    /\ pc = "idle"
    /\ tk < Len(tokens)
    /\ tokens[tk + 1].f
    /\ tk' = tk + 1
    /\ state' = [state EXCEPT !.fmode = TRUE]
    /\ lvl' = 0
    /\ str' = 1
    /\ loc' = FreshLoc(1)
    /\ pc' = "find_literal"
    /\ UNCHANGED <<inputs, stack, err, ret>>

\* The assertions after the literal scanner's loop.
find_literal_asserts(s) == s <= End /\ (s = End \/ At(s) \in {"{", "}"})

\* The literal scanner's exit through `done:` with the literal [literal_start, s).
FindLiteralDone(result, s, cursor) ==
    LET literal == IF loc.literal_start # s THEN decode_literal(loc.literal_start, s)
                   ELSE NULL
    IN  IF loc.literal_start # s /\ IsNull(literal)
        THEN Fail("decode", cursor)
        ELSE /\ loc' = [loc EXCEPT !.s = s, !.result = result, !.literal = literal]
             /\ str' = cursor
             /\ pc' = "find_literal_and_expr"
             /\ UNCHANGED <<inputs, tk, lvl, state, stack, err, ret>>

\* while (s < end): the iteration at s, or the loop's end.
find_literal_step ==
    IF loc.s < End THEN fstring_find_literal_iter(loc.s, lvl)
    ELSE [k |-> "break", s |-> loc.s, str |-> 0]

\* One iteration of fstring_find_literal's loop, or its exit.  A failed
\* assertion aborts the process in a build that keeps assertions and is
\* skipped in one that does not.
FindLiteral ==
    /\ pc = "find_literal"
    /\ LET it == find_literal_step
       IN  CASE it.k = "continue" ->
                   /\ loc' = [loc EXCEPT !.s = it.s]
                   /\ UNCHANGED <<inputs, tk, pc, lvl, str, state, stack, err, ret>>
             [] it.k = "break" ->
                   \/ /\ ~find_literal_asserts(it.s)
                      /\ pc' = "aborted"
                      /\ str' = it.s
                      /\ loc' = [loc EXCEPT !.s = it.s]
                      /\ UNCHANGED <<inputs, tk, lvl, state, stack, err, ret>>
                   \/ FindLiteralDone(0, it.s, it.s)
             [] it.k = "doubled" -> FindLiteralDone(1, it.s, it.str)
             [] it.k = "single" -> Fail("f-string: single '}' is not allowed", it.str)
             [] it.k = "warn" -> Fail("invalid escape sequence \\{", str)

\* fstring_find_literal_and_expr after the literal scanner returned.
FindLiteralAndExpr ==
    /\ pc = "find_literal_and_expr"
    /\ pc' = IF loc.result = 1 \/ str >= End \/ At(str) = "}"
             THEN "concat_body" ELSE "find_expr"
    /\ UNCHANGED <<inputs, tk, lvl, str, state, loc, stack, err, ret>>

\* fstring_find_expr's entry: the nesting check, then past the "{".
FindExprEnter ==
    /\ pc = "find_expr"
    /\ IF NestedTooDeeply(lvl)
       THEN Fail("f-string: expressions nested too deeply", str)
       ELSE /\ str' = str + 1
            /\ loc' = [loc EXCEPT !.expr_start = str + 1]
            /\ pc' = "find_expr_loop"
            /\ UNCHANGED <<inputs, tk, lvl, state, stack, err, ret>>

\* One iteration of fstring_find_expr's for loop, or its exit at end.
FindExprLoop ==
    /\ pc = "find_expr_loop"
    /\ IF str >= End
       THEN /\ pc' = "find_expr_end"
            /\ UNCHANGED <<inputs, tk, lvl, str, state, loc, stack, err, ret>>
       ELSE LET it == fstring_find_expr_iter(str, loc)
            IN  CASE it.k = "error" -> Fail(it.err, it.str)
                  [] it.k = "break" ->
                        /\ pc' = "find_expr_end"
                        /\ loc' = it.l
                        /\ str' = it.str
                        /\ UNCHANGED <<inputs, tk, lvl, state, stack, err, ret>>
                  [] it.k = "next" ->
                        /\ loc' = it.l
                        /\ str' = it.str + 1
                        /\ UNCHANGED <<inputs, tk, pc, lvl, state, stack, err, ret>>

\* fstring_find_expr after the loop: the checks before the expression is compiled.
FindExprEnd ==
    /\ pc = "find_expr_end"
    /\ IF loc.quote_char # NUL
       THEN Fail("f-string: unterminated string", str)
       ELSE IF loc.nested_depth # 0
       THEN Fail("f-string: unmatched '" \o loc.parenstack[loc.nested_depth - 1] \o "'", str)
       ELSE IF str >= End
       THEN Fail("f-string: expecting '}'", str)
       ELSE /\ loc' = [loc EXCEPT !.expr_end = str]
            /\ pc' = "compile_expr"
            /\ UNCHANGED <<inputs, tk, lvl, str, state, stack, err, ret>>

\* fstring_compile_expr.  A failed assertion aborts the process in a build
\* that keeps assertions and is skipped in one that does not.  The expression
\* parser, which is not part of this program, accepts the parenthesised
\* bytes or raises its own error.
CompileExpr ==
    /\ pc = "compile_expr"
    /\ \/ /\ ~compile_expr_asserts(loc.expr_start, loc.expr_end)
          /\ pc' = "aborted"
          /\ UNCHANGED <<inputs, tk, lvl, str, state, loc, stack, err, ret>>
       \/ IF AllWhitespace(loc.expr_start, loc.expr_end)
          THEN Fail("f-string: empty expression not allowed", str)
          ELSE \/ Fail("invalid syntax", str)
               \/ /\ loc' = [loc EXCEPT !.simple_expression =
                                            ExprNode(tk, loc.expr_start, loc.expr_end - 1)]
                  /\ pc' = "find_expr_tail"
                  /\ UNCHANGED <<inputs, tk, lvl, str, state, stack, err, ret>>

\* fstring_compile_expr step by step.  What the steps leave alone.
cx_inputs == <<tokens, raw, feature_version, escalate, t_bytes, parsed, xl, dec>>

\* A step that stays in fstring_compile_expr, and one that returns NULL.
CxStep(c) ==
    /\ cx' = c
    /\ UNCHANGED <<cx_inputs, tk, pc, lvl, str, state, loc, stack, err, ret>>
CxReturnNull(c, msg) ==
    /\ cx' = [c EXCEPT !.pc = "returned"]
    /\ Unwind(msg, str)
    /\ UNCHANGED <<cx_inputs, tk, ret>>
\* The process dies at a dereference of NULL.
CxCrash(c) ==
    /\ cx' = [c EXCEPT !.pc = "crashed"]
    /\ pc' = "crashed"
    /\ UNCHANGED <<cx_inputs, tk, lvl, str, state, loc, stack, err, ret>>

\* Lines 385-398: the assertions, the test for an expression that is all
\* whitespace, and the allocation of the scratch buffer.
CxAlloc ==
    /\ pc = "compile_expr"
    /\ cx.pc \in {"entry", "returned"}
    /\ \/ /\ ~compile_expr_asserts(loc.expr_start, loc.expr_end)
          /\ pc' = "aborted"
          /\ UNCHANGED <<inputs, tk, lvl, str, state, loc, stack, err, ret>>
       \/ IF AllWhitespace(loc.expr_start, loc.expr_end)
          THEN CxReturnNull(CxEntry, "f-string: empty expression not allowed")
          ELSE \/ CxReturnNull([CxEntry EXCEPT !.str = "NULL"], "MemoryError")
               \/ CxStep([CxEntry EXCEPT !.pc = "allocated", !.str = "live"])

\* Lines 399-409: the text between braces and fstring_find_expr_location,
\* which fails when the bytes of the token cannot be had.
CxLocate ==
    /\ pc = "compile_expr"
    /\ cx.pc = "allocated"
    /\ \/ CxReturnNull([cx EXCEPT !.str = "freed", !.frees.str = @ + 1], "location")
       \/ CxStep([cx EXCEPT !.pc = "located"])

\* Lines 411-420: the tokenizer over the text between parentheses.
CxTokenizer ==
    /\ pc = "compile_expr"
    /\ cx.pc = "located"
    /\ \/ CxReturnNull([cx EXCEPT !.tok = "NULL", !.str = "freed", !.frees.str = @ + 1],
                       "MemoryError")
       \/ CxStep([cx EXCEPT !.pc = "tokenized", !.tok = "live"])

\* Lines 424-427: the inner parser, whose creation may fail, and the
\* assignments through p2 that follow at once.
CxParserNew ==
    /\ pc = "compile_expr"
    /\ cx.pc = "tokenized"
    /\ \/ CxStep([cx EXCEPT !.pc = "created", !.p2 = "live"])
       \/ CxCrash([cx EXCEPT !.p2 = "NULL", !.null_deref = TRUE])
       \/ CxStep([cx EXCEPT !.pc = "created", !.p2 = "NULL", !.null_deref = TRUE])

\* Line 429: _Mys_PyPegen_run_parser(p2), then `goto exit` or `result = expr`.
CxRun ==
    /\ pc = "compile_expr"
    /\ cx.pc = "created"
    /\ IF cx.p2 = "NULL"
       THEN \/ CxCrash(cx)
            \/ CxStep([cx EXCEPT !.pc = "exit", !.expr = "NULL"])
       ELSE \/ CxStep([cx EXCEPT !.pc = "exit", !.expr = "NULL"])
            \/ CxStep([cx EXCEPT !.pc = "exit", !.expr = "expr"])

\* Lines 436-440, exit: the buffer, the parser and the tokenizer are freed
\* and result is returned.
CxExit ==
    /\ pc = "compile_expr"
    /\ cx.pc = "exit"
    /\ LET freed == [cx EXCEPT !.str = "freed", !.frees.str = @ + 1,
                               !.tok = "freed", !.frees.tok = @ + 1,
                               !.p2 = IF cx.p2 = "NULL" THEN "NULL" ELSE "freed",
                               !.frees.p2 = IF cx.p2 = "NULL" THEN @ ELSE @ + 1]
       IN  IF cx.p2 = "NULL"
           THEN \/ CxCrash([cx EXCEPT !.str = "freed", !.frees.str = @ + 1])
                \/ CxReturnNull(freed, "invalid syntax")
           ELSE IF cx.expr = "NULL"
           THEN CxReturnNull(freed, "invalid syntax")
           ELSE /\ cx' = [freed EXCEPT !.pc = "returned"]
                /\ loc' = [loc EXCEPT !.simple_expression =
                                          ExprNode(tk, loc.expr_start, loc.expr_end - 1)]
                /\ pc' = "find_expr_tail"
                /\ UNCHANGED <<cx_inputs, tk, lvl, str, state, stack, err, ret>>

\* fstring_find_expr after the expression compiled: `=`, the conversion
\* and, at a ":", the call of fstring_parse one level down, which
\* initialises a parser state of its own and enters ConcatFstring.
FindExprTail ==
    /\ pc = "find_expr_tail"
    /\ LET t == fstring_find_expr_tail(str, loc.expr_start)
           l == [loc EXCEPT !.expr_text = t.expr_text, !.conversion = t.conversion]
       IN  CASE t.k = "error" -> Fail(t.err, t.str)
             [] t.k = "close" ->
                   /\ loc' = l
                   /\ str' = t.str
                   /\ pc' = "find_expr_close"
                   /\ UNCHANGED <<inputs, tk, lvl, state, stack, err, ret>>
             [] t.k = "spec" ->
                   /\ stack' = Append(stack, [state |-> state, loc |-> l, lvl |-> lvl])
                   /\ state' = [FstringParser_Init EXCEPT !.fmode = TRUE]
                   /\ lvl' = lvl + 1
                   /\ str' = t.str
                   /\ loc' = FreshLoc(t.str)
                   /\ pc' = "find_literal"
                   /\ UNCHANGED <<inputs, tk, err, ret>>

\* DefaultConversion that looks at expr_text alone.
DefaultConversion_Always(expr_text, format_spec, conversion) ==
    IF ~IsNull(expr_text) THEN "r" ELSE conversion

\* The conversion the FormattedValue gets.
DefaultConversion(expr_text, format_spec, conversion) ==
    IF ~IsNull(expr_text) /\ format_spec = NullNode /\ conversion = NoConversion
    THEN "r" ELSE conversion

\* fstring_find_expr's end: the closing brace and the FormattedValue node.
FindExprClose ==
    /\ pc = "find_expr_close"
    /\ IF str >= End \/ At(str) # "}"
       THEN Fail("f-string: expecting '}'", str)
       ELSE /\ str' = str + 1
            /\ loc' = [loc EXCEPT !.expression =
                           Mys_FormattedValue(loc.simple_expression,
                               DefaultConversion(loc.expr_text, loc.format_spec, loc.conversion),
                               loc.format_spec)]
            /\ pc' = "concat_body"
            /\ UNCHANGED <<inputs, tk, lvl, state, stack, err, ret>>

\* The rest of one iteration of ConcatFstring's loop.
ConcatBody ==
    /\ pc = "concat_body"
    /\ LET b == ConcatFstring_body(state, loc, 1)
       IN  /\ state' = b.state
           /\ pc' = IF b.k = "break" THEN "concat_end" ELSE "find_literal"
           /\ loc' = IF b.k = "break" THEN loc ELSE FreshLoc(str)
    /\ UNCHANGED <<inputs, tk, lvl, str, stack, err, ret>>

\* concat_end_check without the test for the closing brace of a format spec.
concat_end_check_AnyByte(recurse_lvl, s) ==
    IF recurse_lvl = 0 /\ s < End - 1 THEN "f-string: unexpected end of string"
    ELSE ""

\* The checks after ConcatFstring's loop: the error raised, "" for none.
concat_end_check(recurse_lvl, s) ==
    IF recurse_lvl = 0 /\ s < End - 1 THEN "f-string: unexpected end of string"
    ELSE IF recurse_lvl # 0 /\ At(s) # "}" THEN "f-string: expecting '}'"
    ELSE ""

\* ConcatFstring's checks after its loop and its return: to the caller, or
\* into fstring_parse, whose Finish hands the format spec to the suspended
\* fstring_find_expr.
ConcatEnd ==
    /\ pc = "concat_end"
    /\ IF concat_end_check(lvl, str) # ""
       THEN Fail(concat_end_check(lvl, str), str)
       ELSE IF Len(stack) = 0
       THEN /\ pc' = "idle"
            /\ loc' = FreshLoc(0)
            /\ UNCHANGED <<inputs, tk, lvl, str, state, stack, err, ret>>
       ELSE LET top == stack[Len(stack)]
            IN  /\ loc' = [top.loc EXCEPT !.format_spec = FstringParser_Finish(state, tk).node]
                /\ state' = top.state
                /\ lvl' = top.lvl
                /\ stack' = SubSeq(stack, 1, Len(stack) - 1)
                /\ pc' = "find_expr_close"
                /\ UNCHANGED <<inputs, tk, str, err, ret>>

\* The caller ends the atom with Finish.
Caller_Finish ==
    /\ pc = "idle"
    /\ tk = Len(tokens)
    /\ LET f == FstringParser_Finish(state, 1)
       IN  /\ ret' = f.node
           /\ state' = f.state
    /\ pc' = "done"
    /\ UNCHANGED <<inputs, tk, lvl, str, loc, stack, err>>

\* After a failed ConcatFstring the caller deallocates the state.
Caller_Dealloc ==
    /\ pc = "failed"
    /\ state' = FstringParser_Dealloc(state)
    /\ pc' = "done"
    /\ UNCHANGED <<inputs, tk, lvl, str, loc, stack, err, ret>>

Next ==
    \/ Caller_ConcatAndDel
    \/ Caller_ConcatFstring
    \/ FindLiteral
    \/ FindLiteralAndExpr
    \/ FindExprEnter
    \/ FindExprLoop
    \/ FindExprEnd
    \/ CompileExpr
    \/ FindExprTail
    \/ FindExprClose
    \/ ConcatBody
    \/ ConcatEnd
    \/ Caller_Finish
    \/ Caller_Dealloc

\* Atoms of one f-string token.
OneFstring(A, n) == {<<FTok(b)>> : b \in Strings(A, n)}

\* An atom of a plain token and an f-string token.
BaseAtoms == {<<STok(<<"a">>), FTok(<<"{", "a", "}">>)>>}

Init ==
    /\ \/ tokens \in OneFstring(BraceAlphabet, MaxLen)
       \/ AtomFrom(MaxTokens, MaxTotal, <<>>)
    /\ InitRest({FALSE}, {8}, {FALSE})

Spec == Init /\ [][Next]_vars

\* The assembler with fstring_compile_expr taken step by step.
NextCompile ==
    \/ Caller_ConcatAndDel
    \/ Caller_ConcatFstring
    \/ FindLiteral
    \/ FindLiteralAndExpr
    \/ FindExprEnter
    \/ FindExprLoop
    \/ FindExprEnd
    \/ CxAlloc
    \/ CxLocate
    \/ CxTokenizer
    \/ CxParserNew
    \/ CxRun
    \/ CxExit
    \/ FindExprTail
    \/ FindExprClose
    \/ ConcatBody
    \/ ConcatEnd
    \/ Caller_Finish
    \/ Caller_Dealloc

InitCompile ==
    InitWith(OneFstring({"{", "}", "a", " "}, MaxCompileLen) \cup BaseAtoms, {FALSE}, {8}, {FALSE})

SpecCompile == InitCompile /\ [][NextCompile]_vars

\* Bodies of braces, quotes and escapes, raw and not; the program takes its
\* next step as long as it has one.
InitTerminates ==
    InitWith(OneFstring({"{", "}", ":", "'", BACKSLASH, "N"}, MaxLiveLen) \cup BaseAtoms,
             BOOLEAN, {8}, {FALSE})

SpecTerminates == InitTerminates /\ [][Next]_vars /\ WF_vars(Next)

\* Raw bodies of text, braces, colons and backslashes.
InitRound ==
    InitWith(OneFstring({"{", "}", "a", ":", BACKSLASH}, MaxRoundLen) \cup BaseAtoms,
             {TRUE}, {8}, {FALSE})

SpecRound == InitRound /\ [][Next]_vars

\* Bodies of text, braces, backslashes and N, raw and not.
InitLiteral ==
    InitWith(OneFstring({"{", "}", "a", "N", BACKSLASH}, MaxLiteralLen) \cup BaseAtoms,
             BOOLEAN, {8}, {FALSE})

SpecLiteral == InitLiteral /\ [][Next]_vars

\* Tokens with an empty text, an empty body, a body that decodes to the
\* empty text, and others, in any sequence; not raw.
Pieces ==
    {STok(<<>>), STok(<<"a">>), FTok(<<>>), FTok(<<"a">>), FTok(<<BACKSLASH, "\n">>),
     FTok(<<"{", "a", "}">>), FTok(<<"{", "a", "}", BACKSLASH, "\n">>), FTok(<<"{">>)}

InitPieces ==
    InitWith(UNION {[1..n -> Pieces] : n \in 1..MaxPieces}, {FALSE}, {8}, {FALSE})

SpecPieces == InitPieces /\ [][Next]_vars

\* An opening brace and then quotes of both kinds, brackets and braces.
InitQuotes ==
    InitWith({<<FTok(<<"{">> \o b)>> : b \in Strings({SQUOTE, DQUOTE, "(", "}"}, MaxQuoteLen)}
                 \cup BaseAtoms,
             {FALSE}, {8}, {FALSE})

SpecQuotes == InitQuotes /\ [][Next]_vars

\* One replacement field: a blank or a simple expression, then any bytes of
\* "=", conversions, format specs and the closing brace.
InitOrder ==
    InitWith({<<FTok(<<"{">> \o e \o tail)>> :
                  e \in {<<" ">>, <<" ", " ">>, <<"a">>},
                  tail \in Strings({"!", "x", "r", ":", "=", "}"}, MaxTailLen)}
                 \cup BaseAtoms,
             {FALSE}, {7, 8}, {FALSE})

SpecOrder == InitOrder /\ [][Next]_vars

\* Bodies of braces, "=", "!", ":", quotes, blanks, backslashes, N and text,
\* raw and not.
InitCursor ==
    InitWith(OneFstring({"{", "}", "=", "!", ":", DQUOTE, " ", BACKSLASH, "N", "a"}, MaxCursorLen)
                 \cup BaseAtoms,
             BOOLEAN, {8}, {FALSE})

SpecCursor == InitCursor /\ [][Next]_vars

\* ------------------------------------------------------ the list on its own

\* The nodes handed to ExprList_Append.
XlNodes == {Mys_Constant(<<"a">>, ""), Mys_Constant(<<"b">>, "")}

xl_inputs == <<tokens, raw, feature_version, escalate, t_bytes, parsed, cx, dec>>

XlStep(x) ==
    /\ xl' = x
    /\ UNCHANGED <<xl_inputs, tk, pc, lvl, str, state, loc, stack, err, ret>>

\* The list is live: initialised, no call has failed, not deallocated.
XlLive == xl.list.p # "NULL" /\ xl.ret = 0 /\ xl.pc = "live"

\* ExprList_Append returns 0.
XlAppend ==
    /\ XlLive
    /\ xl.list.size < MaxAppends
    /\ \E exp \in XlNodes :
           XlStep([xl EXCEPT !.list = ExprList_Append(xl.list, exp),
                             !.appended = Append(xl.appended, exp)])

\* ExprList_Append returns -1: the buffer was full and there was no memory;
\* a failed reallocation frees the old buffer.
XlAppendNoMemory ==
    /\ XlLive
    /\ xl.list.size < MaxAppends
    /\ xl.list.size >= xl.list.allocated
    /\ XlStep([xl EXCEPT !.list = ExprList_Append_NoMemory(xl.list), !.ret = -1,
                         !.frees = xl.frees + ExprList_Dealloc_frees(xl.list)])

\* ConcatAndDel leaves a pending literal in last_str.
XlConcatAndDel ==
    /\ XlLive
    /\ ~xl.last_str
    /\ XlStep([xl EXCEPT !.last_str = TRUE])

\* FstringParser_Dealloc on x: the assertions at its entry and at the entry
\* of ExprList_Dealloc, the release of last_str and of the buffer.
XlStateDealloc(x) ==
    [x EXCEPT !.dead_entry = x.dead_entry \/ ~ExprList_check_invariants(x.list),
              !.frees = x.frees + ExprList_Dealloc_frees(x.list),
              !.last_str = FALSE,
              !.list = ExprList_Dealloc(x.list),
              !.ret = -1,
              !.pc = "dropped"]

\* An operation that has entered FstringParser_Dealloc with the state x:
\* when an assertion fails there the process aborts, in a build that keeps
\* assertions, or goes on, in one that does not.
XlDrop(x) ==
    \/ /\ ~ExprList_check_invariants(x.list)
       /\ XlStep([x EXCEPT !.dead_entry = TRUE, !.pc = "aborted"])
    \/ XlStep(XlStateDealloc(x))

\* FstringParser_Finish in fmode: the pending literal is made a node and
\* appended, ExprList_Finish copies the nodes into a new sequence and
\* deallocates the list; when the node, the append or the sequence fails,
\* `error:` calls FstringParser_Dealloc.
XlFinish ==
    /\ xl.pc = "live"
    /\ XlLive
    /\ LET node == Mys_Constant(<<"a">>, "")
           flushed == IF xl.last_str
                      THEN [xl EXCEPT !.last_str = FALSE,
                                      !.list = ExprList_Append(xl.list, node),
                                      !.appended = Append(xl.appended, node)]
                      ELSE xl
           finished == [flushed EXCEPT !.list = ExprList_Dealloc(flushed.list),
                                       !.frees = flushed.frees
                                                     + ExprList_Dealloc_frees(flushed.list)]
       IN  \/ /\ xl.last_str
              /\ XlDrop([xl EXCEPT !.last_str = FALSE])
           \/ /\ xl.last_str
              /\ xl.list.size >= xl.list.allocated
              /\ XlDrop([xl EXCEPT !.last_str = FALSE,
                                   !.list = ExprList_Append_NoMemory(xl.list),
                                   !.frees = xl.frees + ExprList_Dealloc_frees(xl.list)])
           \/ XlDrop(finished)
           \/ XlStep([finished EXCEPT !.pc = "finished"])

\* FstringParser_Dealloc called by fstring_parse, or by the caller of the
\* state, after an operation on it has failed.
XlDealloc ==
    /\ xl.pc = "live"
    /\ xl.ret = -1
    /\ XlDrop(xl)

NextExprList == XlAppend \/ XlAppendNoMemory \/ XlConcatAndDel \/ XlFinish \/ XlDealloc

InitExprList == InitWith(BaseAtoms, {FALSE}, {8}, {FALSE})

SpecExprList == InitExprList /\ [][NextExprList]_vars

\* ----------------------------------------- the first pass of the decoder

dec_inputs == <<tokens, raw, feature_version, escalate, t_bytes, parsed, cx, xl>>

DecStep(d) ==
    /\ dec' = d
    /\ UNCHANGED <<dec_inputs, tk, pc, lvl, str, state, loc, stack, err, ret>>

\* The overflow check and the allocation of the buffer of len * 6 bytes.
DecEnter ==
    /\ dec.pc = "entry"
    /\ IF Len(dec.src) > (SizeModulus - 1) \div 6
       THEN DecStep([dec EXCEPT !.pc = "returned", !.v = "TooLong"])
       ELSE \/ DecStep([dec EXCEPT !.pc = "returned", !.v = "NoMemory"])
            \/ DecStep([dec EXCEPT !.pc = "loop"])

\* One iteration of the loop.  A write past the buffer is recorded; the
\* assertion, made after a run of UTF-8, aborts the process when it fails in
\* a build that keeps assertions.
DecIter ==
    /\ dec.pc = "loop"
    /\ dec.s <= Len(dec.src)
    /\ LET it == decode_unicode_iter(dec.src, dec.s, dec.buf)
           d == [dec EXCEPT !.s = it.s, !.buf = it.buf,
                            !.overflow = dec.overflow \/ Len(it.buf) > dec.size]
       IN  CASE it.k = "null" -> DecStep([d EXCEPT !.pc = "returned", !.v = "NULL"])
             [] it.k = "break" -> DecStep([d EXCEPT !.pc = "escape"])
             [] it.k = "next" ->
                   \/ /\ it.high /\ Len(it.buf) > dec.size
                      /\ DecStep([d EXCEPT !.pc = "aborted"])
                   \/ DecStep(d)

\* while (s < end) is false.
DecLoopEnd ==
    /\ dec.pc = "loop"
    /\ dec.s > Len(dec.src)
    /\ DecStep([dec EXCEPT !.pc = "escape"])

\* len = p - buf and PyUnicode_DecodeUnicodeEscape(buf, len), which is given
\* the bytes written.
DecEscape ==
    /\ dec.pc = "escape"
    /\ DecStep([dec EXCEPT !.pc = "returned", !.v = "object"])

NextDecode == DecEnter \/ DecIter \/ DecLoopEnd \/ DecEscape

InitDecode ==
    /\ tokens \in BaseAtoms
    /\ InitAssemblerOnly({FALSE}, {8}, {FALSE})
    /\ t_bytes = <<>>
    /\ parsed = NotParsed
    /\ dec \in {DecEntry(src) :
                    src \in Strings({"a", BACKSLASH, LEAD2, LEAD3, LEAD4, CONT}, MaxSourceLen)}

SpecDecode == InitDecode /\ [][NextDecode]_vars

\* Atoms of plain tokens only.
PlainAtoms ==
    UNION {[1..n -> {STok(x) : x \in Strings({"a", "b"}, MaxPlainLen)}] : n \in 1..MaxPlainTokens}

InitPlain == InitWith(PlainAtoms \cup BaseAtoms, {FALSE}, {8}, {FALSE})

SpecPlain == InitPlain /\ [][Next]_vars

\* parsestr on the token t.
Parsestr ==
    /\ pc = "idle"
    /\ parsed = NotParsed
    /\ parsed' = parsestr(t_bytes, feature_version, escalate)
    /\ UNCHANGED <<tokens, raw, feature_version, escalate, t_bytes, cx, xl, dec,
                   tk, pc, lvl, str, state, loc, stack, err, ret>>

NextParse == Parsestr

InitParsestr(Bytes_, Versions) ==
    /\ t_bytes \in Bytes_
    /\ parsed = NotParsed
    /\ tokens = <<>>
    /\ InitAssembler({FALSE}, Versions, {FALSE})

PrefixAlphabet == {"b", "u", "U", "r", "e", "f", "c"}
RestAlphabet == {DQUOTE, SQUOTE, "a", BACKSLASH}

\* Tokens of every prefix, in every order of its letters.
InitParse ==
    InitParsestr({p \o r : p \in Strings(PrefixAlphabet, MaxPrefixLen),
                           r \in Strings(RestAlphabet, MaxRestLen)}, {8})

SpecParse == InitParse /\ [][NextParse]_vars

\* Regex tokens.
InitRegex ==
    InitParsestr({p \o r : p \in {<<"r", "e">>, <<"b", "R", "E">>, <<"f", "r", "e">>},
                           r \in Strings({DQUOTE, "a", "i", HIGH}, MaxRegexLen)}, {8})

SpecRegex == InitRegex /\ [][NextParse]_vars

\* f-string tokens.
InitFormat ==
    InitParsestr({p \o r : p \in {<<"f">>, <<"F">>, <<"r", "f">>},
                           r \in Strings({DQUOTE, SQUOTE, "a"}, MaxFormatLen)}, {5, 8})

SpecFormat == InitFormat /\ [][NextParse]_vars

\* Atoms whose first token has a prefix or none, alone or ahead of an
\* f-string.
KindAtoms ==
    LET firsts == {PTok(p, <<"a">>) : p \in {<<>>, <<"u">>, <<"U">>, <<"r">>}}
    IN  {<<t>> : t \in firsts}
            \cup {<<t, FTok(b)>> : t \in firsts, b \in Strings(BraceAlphabet, MaxKindLen)}

InitKind == InitWith(KindAtoms \cup BaseAtoms, {FALSE}, {8}, {FALSE})

SpecKind == InitKind /\ [][Next]_vars

\* f-strings of several lines.
InitLines ==
    /\ tokens \in OneFstring({"{", "}", "a", "\n"}, MaxLinesLen)
                      \cup OneFstring({"{", "}", "a", "\n", "="}, MaxSelfDocLen)
                      \cup BaseAtoms
    /\ InitRest({FALSE}, {8}, {FALSE})

SpecLines == InitLines /\ [][Next]_vars

\* Bodies of comparison operators and terminators.
InitOperators ==
    InitWith(OneFstring(OperatorAlphabet, MaxOperatorLen) \cup BaseAtoms, {FALSE}, {8}, {FALSE})

SpecOperators == InitOperators /\ [][Next]_vars

\* Bodies of brackets and quotes.
InitBrackets ==
    InitWith(OneFstring(BracketAlphabet, MaxBracketLen) \cup BaseAtoms, {FALSE}, {8}, {FALSE})

SpecBrackets == InitBrackets /\ [][Next]_vars

\* Bodies of backslashes and comment characters, raw and not.
InitScan ==
    InitWith(OneFstring(ScanAlphabet, MaxScanLen) \cup BaseAtoms, BOOLEAN, {8}, {FALSE})

SpecScan == InitScan /\ [][Next]_vars

\* Bodies of one replacement field: an expression, "=", spaces, a conversion
\* and a format spec, any of them left out, between literal text.
DebugBodies ==
    {pre \o <<"{">> \o e \o eq \o ws \o cv \o sp \o close \o post :
        pre \in Strings({"a"}, 1),
        e \in {<<"a">>, <<" ", "a">>, <<"a", " ">>},
        eq \in {<<>>, <<"=">>},
        ws \in Strings({" "}, MaxSpace),
        cv \in {<<>>, <<"!">>, <<"!", "r">>, <<"!", "s">>, <<"!", "a">>, <<"!", "x">>},
        sp \in {<<>>, <<":">>, <<":", "a">>, <<":", "{", "a", "}">>, <<":", "{", "a", "=", "}">>},
        close \in {<<>>, <<"}">>},
        post \in Strings({"a"}, 1)}

InitDebug ==
    InitWith({<<FTok(b)>> : b \in DebugBodies} \cup BaseAtoms, {FALSE}, {7, 8}, {FALSE})

SpecDebug == InitDebug /\ [][Next]_vars

\* ------------------------------------------------------------------ claims

IsConstant(n) == n.type = "Constant"
IsFormattedValue(n) == n.type = "FormattedValue"

NoAdjacentConstants(vs) ==
    \A i \in 1..(Len(vs) - 1) : ~(IsConstant(vs[i]) /\ IsConstant(vs[i + 1]))

\* The opening brace of v's expression comes before that of w's.
BraceBefore(v, w) ==
    \/ v.value.tok < w.value.tok
    \/ v.value.tok = w.value.tok /\ v.value.first < w.value.first

InSourceOrder(vs) ==
    \A i, j \in 1..Len(vs) :
        i < j /\ IsFormattedValue(vs[i]) /\ IsFormattedValue(vs[j]) => BraceBefore(vs[i], vs[j])

\* The format specs among the elements vs.
FormatSpecs(vs) ==
    {vs[i].format_spec : i \in {j \in 1..Len(vs) : IsFormattedValue(vs[j])}}
        \ {NullNode}

\* C1: when Finish succeeds in f-mode after any sequence of ConcatAndDel and
\* ConcatFstring calls, the JoinedStr's elements (and those of every format
\* spec in it) hold no two adjacent Constant nodes, and the FormattedValue
\* nodes come in the order of their opening braces in the source.
C1_MergedAndOrdered ==
    pc = "done" /\ ret.type = "JoinedStr" =>
        /\ NoAdjacentConstants(ret.values)
        /\ InSourceOrder(ret.values)
        /\ \A f \in FormatSpecs(ret.values) :
               NoAdjacentConstants(f.values) /\ InSourceOrder(f.values)

\* Two tokens whose literal texts end up in one Constant ahead of the
\* expression of the second.
C1_Witness ==
    /\ pc = "done"
    /\ Len(tokens) = 2
    /\ ret.type = "JoinedStr"
    /\ Len(ret.values) = 2
    /\ ret.values[1] = Mys_Constant(<<"a", "a">>, "")
    /\ IsFormattedValue(ret.values[2])

\* A body of literal text and doubled braces only, read left to right:
\* whether it is one, and its text with the braces un-doubled.
RECURSIVE Undouble(_)
Undouble(b) ==
    IF Len(b) = 0 THEN [ok |-> TRUE, text |-> <<>>]
    ELSE IF Head(b) \notin {"{", "}"}
    THEN LET r == Undouble(Tail(b)) IN [r EXCEPT !.text = <<Head(b)>> \o r.text]
    ELSE IF Len(b) >= 2 /\ b[2] = Head(b)
    THEN LET r == Undouble(SubSeq(b, 3, Len(b))) IN [r EXCEPT !.text = <<Head(b)>> \o r.text]
    ELSE [ok |-> FALSE, text |-> <<>>]

OneFstringDone == pc = "done" /\ Len(tokens) = 1 /\ tokens[1].f

AtBrace == pc = "find_literal" /\ loc.s < End /\ At(loc.s) \in {"{", "}"}
                /\ (loc.s = 1 \/ At(loc.s - 1) # BACKSLASH)
TwinFollows == loc.s + 1 < End /\ At(loc.s + 1) = At(loc.s)

\* C3: at recurse_lvl 0 the literal scanner, at a brace followed by the same
\* brace, returns status 1 with the literal ending in that one brace and the
\* cursor two bytes on, and no expression is started; at recurse_lvl >= 1 it
\* returns status 0 with the cursor on the brace whatever follows, and then a
\* "{" starts an expression and a "}" ends the format spec.
C3_DoubledBraces ==
    [][/\ AtBrace /\ lvl = 0 /\ TwinFollows =>
            /\ pc' = "find_literal_and_expr"
            /\ loc'.result = 1
            /\ str' = loc.s + 2
            /\ loc'.literal = Some(SubSeq(Body, loc.literal_start, loc.s))
       /\ AtBrace /\ lvl >= 1 =>
            /\ pc' = "find_literal_and_expr"
            /\ loc'.result = 0
            /\ str' = loc.s
            /\ loc'.literal = IF loc.literal_start = loc.s THEN NULL
                              ELSE Some(SubSeq(Body, loc.literal_start, loc.s - 1))
       /\ pc = "find_literal_and_expr" /\ loc.result = 1 =>
            lvl = 0 /\ pc' = "concat_body"
       /\ pc = "concat_body" /\ loc.result = 1 =>
            pc' = "find_literal" /\ loc'.expression = NullNode
                /\ state'.expr_list = state.expr_list
       /\ pc = "find_literal_and_expr" /\ lvl >= 1 /\ At(str) = "{" /\ str < End =>
            pc' = "find_expr"
       /\ pc = "find_literal_and_expr" /\ lvl >= 1 /\ At(str) = "}" =>
            pc' = "concat_body" /\ loc.expression = NullNode
       /\ pc = "concat_end" /\ lvl >= 1 /\ At(str) = "}" =>
            pc' = "find_expr_close" /\ lvl' = lvl - 1 /\ str' = str
      ]_vars

\* "{a:}}}": inside the format spec the first "}" ends the spec although a
\* "}" follows, and at level 0 the "}}" left over is one literal "}".
C3_Witness ==
    /\ OneFstringDone
    /\ tokens[1].text = <<"{", "a", ":", "}", "}", "}">>
    /\ ret = Mys_JoinedStr(<<Mys_FormattedValue(ExprNode(1, 2, 2), NoConversion,
                                                Mys_JoinedStr(<<>>)),
                             Mys_Constant(<<"}">>, "")>>)

\* The levels at which fstring_find_expr scans and compiles an expression.
ScanningExpr ==
    pc \in {"find_expr_loop", "find_expr_end", "compile_expr", "find_expr_tail",
            "find_expr_close"}

\* C4 as claimed: the assembler and both scanners only ever run at
\* recurse_lvl 0 or 1.
C4_LevelAtMostOne == lvl <= 1

\* C4 amended: in a parse started at recurse_lvl 0 the assembler and the
\* literal scanner run at recurse_lvl 2 at most, and the expression scanner,
\* which is entered at level 2 too, scans and compiles an expression at
\* levels 0 and 1 only: entered at level 2 it fails at once.
C4_LevelAtMostTwo ==
    /\ lvl \in 0..2
    /\ Len(stack) = lvl
    /\ ScanningExpr => lvl <= 1
    /\ \A i \in 1..Len(stack) : stack[i].lvl = i - 1

C4_Witness == pc = "find_expr" /\ lvl = 2

\* C9: at recurse_lvl 0 a "}" that no "}" follows makes the literal scanner
\* fail with "single '}' is not allowed": ConcatFstring fails with the cursor
\* on that brace and the parser state as it was, and the text scanned before
\* the brace is not added to it.
C9_SingleClosingBrace ==
    [][AtBrace /\ lvl = 0 /\ At(loc.s) = "}" /\ ~TwinFollows =>
            /\ pc' = "failed"
            /\ err' = "f-string: single '}' is not allowed"
            /\ str' = loc.s
            /\ state' = state
      ]_vars

C9_Witness ==
    /\ pc = "failed"
    /\ err = "f-string: single '}' is not allowed"
    /\ At(str) = "}"
    /\ state.expr_list.size = 1
    /\ IsNull(state.last_str)

\* C5 as claimed: "<" and ">" never end the expression range, so whenever
\* the expression compiler is entered its assertions hold: the byte at
\* expr_end is one of "}", "!", ":", "=".
C5_TerminatorAtExprEnd ==
    pc = "compile_expr" => compile_expr_asserts(loc.expr_start, loc.expr_end)

\* "{a<": the loop is left at the "<" that ends the body, and the compiler
\* is entered with expr_end on it.
C5_Witness ==
    /\ pc = "compile_expr"
    /\ tokens[1].text = <<"{", "a", "<">>
    /\ At(loc.expr_end) = "<"

\* The outermost ConcatFstring's state, which an error leaves as it was.
OuterState == IF Len(stack) = 0 THEN state ELSE stack[1].state

\* The scanner is at the byte ch of the expression region.
ScanningAt(ch) == pc = "find_expr_loop" /\ str < End /\ At(str) = ch

\* The closer of an opener.
Closer(opening) == CASE opening = "(" -> ")" [] opening = "[" -> "]" [] opening = "{" -> "}"

\* The bytes i..hi of the body read as Python reads them, with the brackets
\* open (innermost last) open already and, when q is 1 or 3, inside a string
\* of that many quotes qc: the brackets left open and the string one is left
\* in, and whether every closer outside a string closed the innermost bracket.
RECURSIVE Brackets(_, _, _, _, _)
Brackets(i, hi, open, q, qc) ==
    IF i > hi THEN [ok |-> TRUE, open |-> open, q |-> q]
    ELSE LET ch == At(i)
             triple == i + 2 <= hi /\ At(i + 1) = ch /\ At(i + 2) = ch
         IN  IF q = 1
             THEN IF ch = qc THEN Brackets(i + 1, hi, open, 0, NUL)
                  ELSE Brackets(i + 1, hi, open, q, qc)
             ELSE IF q = 3
             THEN IF ch = qc /\ triple THEN Brackets(i + 3, hi, open, 0, NUL)
                  ELSE Brackets(i + 1, hi, open, q, qc)
             ELSE IF ch \in {SQUOTE, DQUOTE}
             THEN IF triple THEN Brackets(i + 3, hi, open, 3, ch)
                  ELSE Brackets(i + 1, hi, open, 1, ch)
             ELSE IF ch \in {"(", "[", "{"}
             THEN Brackets(i + 1, hi, Append(open, ch), 0, NUL)
             ELSE IF ch \in {")", "]", "}"}
             THEN IF Len(open) > 0 /\ Closer(open[Len(open)]) = ch
                  THEN Brackets(i + 1, hi, SubSeq(open, 1, Len(open) - 1), 0, NUL)
                  ELSE [ok |-> FALSE, open |-> open, q |-> 0]
             ELSE Brackets(i + 1, hi, open, 0, NUL)

\* The expression region read so far, and the whole expression range.
ReadSoFar == Brackets(loc.expr_start, str - 1, <<>>, 0, NUL)
WholeRange == Brackets(loc.expr_start, loc.expr_end - 1, <<>>, 0, NUL)

ExprsOf(items) == {items[i].value : i \in {j \in 1..Len(items) : IsFormattedValue(items[j])}}

\* C7: a backslash the scanner comes to in the expression region, at any
\* bracket depth and inside a string or not, makes it fail with "f-string
\* expression part cannot include a backslash"; no expression with a
\* backslash in its range is compiled or made a FormattedValue.
C7_BackslashRejected ==
    [][/\ ScanningAt(BACKSLASH) =>
            /\ pc' = "failed"
            /\ err' = "f-string expression part cannot include a backslash"
            /\ str' = str
            /\ state' = OuterState
       /\ pc' = "compile_expr" =>
            \A i \in loc'.expr_start..(loc'.expr_end - 1) : At(i) # BACKSLASH
       /\ \A e \in ExprsOf(ExprList_Items(state'.expr_list)) :
            \A i \in e.first..e.last : tokens[e.tok].text[i] # BACKSLASH
      ]_vars

\* "{('\": the backslash is inside a string inside a bracket.
C7_Witness ==
    /\ pc = "failed"
    /\ tokens[1].text = <<"{", "(", "'", BACKSLASH>>
    /\ str = 4
    /\ err = "f-string expression part cannot include a backslash"

\* C8 as claimed: a "#" the scanner comes to in the expression region, at
\* any bracket depth and inside a string or not, makes it fail with
\* "f-string expression part cannot include '#'".
C8_HashRejectedEverywhere ==
    [][ScanningAt("#") =>
            pc' = "failed" /\ err' = "f-string expression part cannot include '#'"
      ]_vars

\* C8 amended: a "#" the scanner comes to outside a string, at any bracket
\* depth, makes it fail with "f-string expression part cannot include '#'";
\* a "#" inside a string is read as a byte of the string and scanning goes on.
C8_HashRejectedOutsideStrings ==
    [][/\ ScanningAt("#") /\ loc.quote_char = NUL =>
            /\ pc' = "failed"
            /\ err' = "f-string expression part cannot include '#'"
            /\ str' = str
            /\ state' = OuterState
       /\ ScanningAt("#") /\ loc.quote_char # NUL =>
            /\ pc' = "find_expr_loop"
            /\ str' = str + 1
            /\ loc' = loc
            /\ err' = ""
      ]_vars

\* "{(#": the "#" is inside a bracket and outside a string.
C8_Witness ==
    /\ pc = "failed"
    /\ tokens[1].text = <<"{", "(", "#">>
    /\ str = 3
    /\ err = "f-string expression part cannot include '#'"

\* The text ConcatFstring holds back: last_str, then the literal just found.
Pending ==
    (IF IsNull(state.last_str) THEN <<>> ELSE Val(state.last_str))
        \o (IF IsNull(loc.literal) THEN <<>> ELSE Val(loc.literal))

\* C10: for an expression followed by "=", with feature_version >= 8, the
\* bytes of the expression, the "=" and the whitespace after it are appended
\* to the pending literal, which becomes the Constant right ahead of the
\* FormattedValue; the conversion is the explicit conversion character when
\* there is one, else -1 when a format spec follows, else "r".
C10_SelfDocumenting ==
    [][pc = "concat_body" /\ ~IsNull(loc.expr_text) =>
            LET text == Val(loc.expr_text)
                past == loc.expr_start + Len(text)
                explicit == At(past) = "!"
                has_spec == At(IF explicit THEN past + 2 ELSE past) = ":"
                fv == loc.expression
            IN  /\ feature_version >= 8
                /\ At(loc.expr_end) = "="
                /\ \A i \in (loc.expr_end + 1)..(past - 1) : Py_ISSPACE(At(i))
                /\ ~Py_ISSPACE(At(past))
                /\ text = SubSeq(Body, loc.expr_start, past - 1)
                /\ IsFormattedValue(fv)
                /\ fv.value = ExprNode(tk, loc.expr_start, loc.expr_end - 1)
                /\ fv.conversion = IF explicit THEN At(past + 1)
                                   ELSE IF has_spec THEN NoConversion ELSE "r"
                /\ (fv.format_spec # NullNode) <=> has_spec
                /\ ExprList_Items(state'.expr_list) =
                       ExprList_Items(state.expr_list) \o <<Mys_Constant(Pending \o text, ""), fv>>
                /\ IsNull(state'.last_str)
      ]_vars

\* "a{a= }": the text "a= " joins the literal "a" ahead of the value.
C10_Witness ==
    /\ pc = "done"
    /\ tokens[1].text = <<"a", "{", "a", "=", " ", "}">>
    /\ ret = Mys_JoinedStr(<<Mys_Constant(<<"a", "a", "=", " ">>, ""),
                             Mys_FormattedValue(ExprNode(1, 3, 3), "r", NullNode)>>)

\* The texts of the first n tokens, one after the other.
RECURSIVE TextsUpTo(_)
TextsUpTo(n) == IF n = 0 THEN <<>> ELSE TextsUpTo(n - 1) \o tokens[n].text

OnlyPlain == \A i \in 1..Len(tokens) : ~tokens[i].f

\* C11: when only plain literals were concatenated, fmode is false and the
\* expression list is empty throughout, the pending literal is the texts
\* concatenated so far in order, and Finish returns one Constant holding the
\* concatenation of all of them (a zero-length text when all were empty), and
\* no JoinedStr.
C11_PlainLiteralsOneConstant ==
    OnlyPlain =>
        /\ ~state.fmode
        /\ state.expr_list.size = 0
        /\ pc = "idle" =>
              state.last_str = IF TextsUpTo(tk) = <<>> THEN NULL ELSE Some(TextsUpTo(tk))
        /\ pc = "done" => ret = Mys_Constant(TextsUpTo(Len(tokens)), "")

\* "a" "" "b": the empty literal is dropped and the others joined in order.
C11_Witness ==
    /\ pc = "done"
    /\ tokens = <<STok(<<"a">>), STok(<<>>), STok(<<"b">>)>>
    /\ ret = Mys_Constant(<<"a", "b">>, "")
    /\ state.expr_list.size = 0

\* parsestr has returned, and with success.
Returned_ == parsed # NotParsed
Succeeded == Returned_ /\ parsed.ret = 0

\* C12: on every successful return of parsestr with is_char set, bytes_mode,
\* raw_mode, regex_mode and char_mode are all false and the token is no
\* f-string.
C12_IsCharAlone ==
    (Succeeded /\ parsed.is_char) =>
        /\ ~parsed.bytesmode /\ ~parsed.rawmode /\ ~parsed.remode /\ ~parsed.cmode
        /\ ~parsed.fmode /\ IsNull(parsed.fstr)

\* 'a' is accepted as a character, and its raw_mode is reported true.
C12_Witness ==
    /\ t_bytes = <<SQUOTE, "a", SQUOTE>>
    /\ Succeeded /\ parsed.is_char /\ parsed.rawmode
    /\ parsed.result = Some(<<"a">>)

\* The offset of the first quote character of the token bytes, their length
\* when there is none.
OpeningQuote ==
    IF \E i \in 1..Len(t_bytes) : t_bytes[i] \in {SQUOTE, DQUOTE}
    THEN (CHOOSE i \in 1..Len(t_bytes) :
              /\ t_bytes[i] \in {SQUOTE, DQUOTE}
              /\ \A j \in 1..(i - 1) : t_bytes[j] \notin {SQUOTE, DQUOTE}) - 1
    ELSE Len(t_bytes)

\* p is made of the prefixes b, u, r, re, f and c, in either case.
RECURSIVE IsPrefix(_)
IsPrefix(p) ==
    \/ p = <<>>
    \/ Head(p) \in {"b", "B", "u", "U", "r", "R", "f", "F", "c", "C"} /\ IsPrefix(Tail(p))
    \/ Len(p) >= 2 /\ p[1] \in {"r", "R"} /\ p[2] \in {"e", "E"} /\ IsPrefix(Tail(Tail(p)))

\* The token is a single-quote token after a prefix of at least one letter.
PrefixedChar ==
    /\ OpeningQuote \in 1..(Len(t_bytes) - 1)
    /\ t_bytes[OpeningQuote + 1] = SQUOTE
    /\ IsPrefix(SubSeq(t_bytes, 1, OpeningQuote))

\* C13: a token whose opening quote is ' after at least one prefix letter is
\* rejected with "characters cannot have a prefix", and is_char is set only
\* for a token that begins with its single quote.
C13_PrefixedCharRejected ==
    Returned_ =>
        /\ PrefixedChar => parsed.ret = -1 /\ parsed.err = "characters cannot have a prefix"
        /\ parsed.is_char => t_bytes[1] = SQUOTE

\* u'a' is accepted, and as a character.
C13_Witness ==
    /\ t_bytes = <<"u", SQUOTE, "a", SQUOTE>>
    /\ PrefixedChar
    /\ Succeeded /\ parsed.is_char
    /\ parsed.result = Some(<<"a">>)

\* No byte after the opening quote of the token is that quote character.
Unclosed ==
    /\ OpeningQuote < Len(t_bytes)
    /\ \A i \in (OpeningQuote + 2)..Len(t_bytes) : t_bytes[i] # t_bytes[OpeningQuote + 1]

\* The length of the body parsestr hands back: fstrlen, or that of result.
BodyLength == IF IsNull(parsed.fstr) THEN Len(Val(parsed.result)) ELSE Val(parsed.fstrlen)

\* C14: parsestr fails on every token whose opening quote is not closed by a
\* later matching quote, and never returns success with a body length that
\* is negative or larger than the token.
C14_UnclosedRejected ==
    /\ (Returned_ /\ Unclosed) => parsed.ret = -1
    /\ Succeeded => BodyLength \in 0..Len(t_bytes)

\* f" ends right after its opening quote and is accepted, with length -1.
C14_Witness ==
    /\ t_bytes = <<"f", DQUOTE>>
    /\ Unclosed
    /\ Succeeded
    /\ parsed.fstr = Some(2) /\ parsed.fstrlen = Some(-1)

\* C15: on every successful return of parsestr char_mode implies raw_mode,
\* regex_mode implies raw_mode, and the f-string outcome and bytes_mode are
\* never both present.
C15_ModeImplications ==
    Succeeded =>
        /\ parsed.cmode => parsed.rawmode
        /\ parsed.remode => parsed.rawmode
        /\ ~(~IsNull(parsed.fstr) /\ parsed.bytesmode)

\* c"\a": char mode, and raw although the body holds a backslash.
C15_Witness ==
    /\ t_bytes = <<"c", DQUOTE, BACKSLASH, "a", DQUOTE>>
    /\ Succeeded
    /\ parsed.cmode /\ parsed.rawmode
    /\ parsed.result = Some(<<BACKSLASH, "a">>)

\* The index of the opening quote of the token bytes, of the last occurrence
\* of that quote character, and the number of quotes on each side: three
\* when the bytes from the one to the other open and close with three.
QuoteIndex == OpeningQuote + 1
QuoteChar == t_bytes[QuoteIndex]
LastQuote ==
    CHOOSE i \in QuoteIndex..Len(t_bytes) :
        t_bytes[i] = QuoteChar /\ \A j \in (i + 1)..Len(t_bytes) : t_bytes[j] # QuoteChar
QuotesEachSide ==
    IF /\ LastQuote - QuoteIndex >= 5
       /\ \A i \in 0..2 : t_bytes[QuoteIndex + i] = QuoteChar /\ t_bytes[LastQuote - i] = QuoteChar
    THEN 3 ELSE 1

\* The bytes between the opening and the closing quotes, and after them.
BodyFirst == QuoteIndex + QuotesEachSide
BodyBytes == SubSeq(t_bytes, BodyFirst, LastQuote - QuotesEachSide)
FlagBytes == SubSeq(t_bytes, LastQuote + 1, Len(t_bytes))

\* C16: for an accepted regex token the flags are the bytes after the last
\* occurrence of the quote character, the body is the bytes between the
\* opening and the closing quotes, without the flags, and raw_mode and
\* regex_mode are both true.
C16_RegexFlags ==
    (Succeeded /\ parsed.remode) =>
        /\ parsed.reflags = Some(FlagBytes)
        /\ IF parsed.fmode
           THEN parsed.fstr = Some(BodyFirst - 1) /\ parsed.fstrlen = Some(Len(BodyBytes))
           ELSE parsed.result = Some(BodyBytes)
        /\ parsed.rawmode

\* fre"ai has no closing quote: ai are taken for flags and the body handed
\* back has length -1.
C16_Witness ==
    /\ t_bytes = <<"f", "r", "e", DQUOTE, "a", "i">>
    /\ Succeeded /\ parsed.remode
    /\ parsed.reflags = Some(<<"a", "i">>)
    /\ parsed.fstrlen = Some(-1)

\* The token opens with three quote characters, and its last three bytes
\* are not all that character.
TripleOpenedNotClosed ==
    /\ QuoteIndex + 2 <= Len(t_bytes)
    /\ \A i \in 0..2 : t_bytes[QuoteIndex + i] = QuoteChar
    /\ \E i \in 0..2 : t_bytes[Len(t_bytes) - i] # QuoteChar

\* C17: for an accepted token with an f prefix result is left absent and
\* fstr, fstrlen are the bytes between the opening and the closing quotes,
\* one quote stripped on each side or three when the token is triple quoted;
\* a triple quoted token whose last three bytes are not all the quote
\* character is rejected.
C17_FstrRange ==
    /\ (Succeeded /\ parsed.fmode) =>
          /\ IsNull(parsed.result)
          /\ parsed.fstr = Some(BodyFirst - 1)
          /\ parsed.fstrlen = Some(Len(BodyBytes))
    /\ (Returned_ /\ parsed.fmode /\ OpeningQuote < Len(t_bytes) /\ TripleOpenedNotClosed) =>
          parsed.ret = -1

\* rf" is accepted, and the range handed back has length -1.
C17_Witness ==
    /\ t_bytes = <<"r", "f", DQUOTE>>
    /\ Succeeded /\ parsed.fmode
    /\ IsNull(parsed.result)
    /\ parsed.fstr = Some(3) /\ parsed.fstrlen = Some(-1)

\* The Constant nodes Finish hands to the caller: the node itself, or the
\* elements of the JoinedStr.
ConstantsOf(n) ==
    IF n.type = "Constant" THEN {n}
    ELSE IF n.type = "JoinedStr"
    THEN {n.values[i] : i \in {j \in 1..Len(n.values) : IsConstant(n.values[j])}}
    ELSE {}

\* C18: every Constant node of the result has kind "u" if the bytes of the
\* first token begin with u or U, and no kind otherwise.
C18_KindOfFirstToken ==
    pc = "done" =>
        \A c \in ConstantsOf(ret) :
            c.kind = IF TokenByte0(1) \in {"u", "U"} THEN "u" ELSE ""

\* U"a": the Constant has no kind.
C18_Witness ==
    /\ pc = "done"
    /\ tokens = <<PTok(<<"U">>, <<"a">>)>>
    /\ ret = Mys_Constant(<<"a">>, "")

\* The number of newlines in the bytes of the token before the byte i of
\* its body.
NewlinesBefore(i) == Cardinality({j \in 1..(i - 1) : Body[j] = "\n"})

\* C19: the starting line handed to the inner parser for an expression is
\* t.lineno + L - 1, L being the number of newlines in the token bytes before
\* the opening brace of that expression, also when the same {expr} text
\* occurs more than once in the token.
C19_StartingLine ==
    (pc = "find_expr_tail" /\ tk \in 1..Len(tokens)) =>
        \A lineno \in 1..MaxLineno :
            starting_lineno(lineno, loc.simple_expression.lines)
                = lineno + NewlinesBefore(loc.expr_start - 1) - 1

\* The second {a} of {a}, newline, {a} is started on the line of the first.
C19_Witness ==
    /\ pc = "find_expr_tail"
    /\ tokens = <<FTok(<<"{", "a", "}", "\n", "{", "a", "}">>)>>
    /\ loc.expr_start = 6
    /\ NewlinesBefore(loc.expr_start - 1) = 1
    /\ loc.simple_expression.lines = 0

\* The indices of parenstack.
ParenstackIndex == 0..(MAXLEVEL - 1)

\* C20: nested_depth stays within 0..MAXLEVEL, parenstack is written at
\* nested_depth and read at nested_depth - 1 only when these are indices of
\* it, and an opening bracket outside a string at nested_depth = MAXLEVEL is
\* rejected with "too many nested parenthesis" and not pushed.
C20_DepthAndIndices ==
    [][/\ loc.nested_depth \in 0..MAXLEVEL
       /\ loc'.nested_depth \in 0..MAXLEVEL
       /\ \A ch \in {"[", "{", "("} :
            ScanningAt(ch) /\ loc.quote_char = NUL =>
                IF loc.nested_depth = MAXLEVEL
                THEN /\ pc' = "failed"
                     /\ err' = "f-string: too many nested parenthesis"
                     /\ str' = str
                ELSE /\ loc.nested_depth \in ParenstackIndex
                     /\ loc'.parenstack[loc.nested_depth] = ch
                     /\ loc'.nested_depth = loc.nested_depth + 1
       /\ \A ch \in {"]", "}", ")"} :
            ScanningAt(ch) /\ loc.quote_char = NUL /\ ~(ch = "}" /\ loc.nested_depth = 0) =>
                IF loc.nested_depth = 0
                THEN pc' = "failed"
                ELSE /\ loc.nested_depth - 1 \in ParenstackIndex
                     /\ pc' # "failed" => loc'.nested_depth = loc.nested_depth - 1
       /\ pc = "find_expr_end" /\ loc.quote_char = NUL /\ loc.nested_depth # 0 =>
            loc.nested_depth - 1 \in ParenstackIndex
      ]_vars

\* An opening bracket met with MAXLEVEL brackets open was rejected.
C20_Witness ==
    /\ pc = "failed"
    /\ err = "f-string: too many nested parenthesis"
    /\ lvl = 0
    /\ str = MAXLEVEL + 2
    /\ \A i \in 1..str : At(i) \in {"[", "{", "("}

\* C21: on every exit of fstring_compile_expr after the scratch buffer was
\* allocated the buffer was freed exactly once, the tokenizer and the inner
\* parser were each freed exactly once if they were created, nothing is
\* freed twice, and an inner parser that was not created is never
\* dereferenced.
C21_CompileExprReleases ==
    /\ cx.frees.str <= 1 /\ cx.frees.tok <= 1 /\ cx.frees.p2 <= 1
    /\ ~cx.null_deref
    /\ cx.pc = "returned" =>
          /\ cx.str \in {"none", "NULL", "freed"}
          /\ cx.tok \in {"none", "NULL", "freed"}
          /\ cx.p2 \in {"none", "NULL", "freed"}

\* The inner parser could not be created and the process died at the
\* assignment through it, the buffer and the tokenizer still held.
C21_Witness ==
    /\ pc = "crashed"
    /\ cx.p2 = "NULL" /\ cx.null_deref
    /\ cx.str = "live" /\ cx.tok = "live"

\* The parse has ended: the caller has the result or the error, or the
\* process was aborted.
Ended == pc \in {"done", "aborted"}

\* C22: every iteration of the literal scanner's loop, of the expression
\* scanner's loop and of the assembler's loop that does not leave the loop
\* has moved the cursor forward, and not beyond end; and every parse ends.
C22_Terminates ==
    /\ [][/\ (pc = "find_literal" /\ pc' = "find_literal") =>
               loc.s < loc'.s /\ loc'.s <= End
          /\ (pc = "find_expr_loop" /\ pc' = "find_expr_loop") =>
               str < str' /\ str' <= End
          /\ (pc = "concat_body" /\ pc' = "find_literal") =>
               loc.literal_start < str /\ str <= End
         ]_vars
    /\ <>Ended

\* A parse with a nested format spec has ended with success.
C22_Witness ==
    /\ pc = "done"
    /\ err = ""
    /\ ret.type = "JoinedStr"
    /\ \E i \in 1..Len(ret.values) :
           IsFormattedValue(ret.values[i]) /\ ret.values[i].format_spec # NullNode

\* The text with every brace doubled.
RECURSIVE Redouble(_)
Redouble(b) ==
    IF Len(b) = 0 THEN <<>>
    ELSE (IF Head(b) \in {"{", "}"} THEN <<Head(b), Head(b)>> ELSE <<Head(b)>>)
             \o Redouble(Tail(b))

\* The pieces in the order emitted, written back as source: a literal with
\* its braces doubled, an expression as its bytes of the body in braces.
RECURSIVE Rebuild(_)
Rebuild(vs) ==
    IF Len(vs) = 0 THEN <<>>
    ELSE LET v == Head(vs)
         IN  (IF IsConstant(v) THEN Redouble(v.value)
              ELSE <<"{">> \o SubSeq(tokens[v.value.tok].text, v.value.first, v.value.last)
                           \o <<"}">>)
                 \o Rebuild(Tail(vs))

\* No "=" in the body, and no conversion or format spec in the result.
PlainFields(vs) ==
    /\ \A i \in 1..Len(tokens[1].text) : tokens[1].text[i] # "="
    /\ \A i \in 1..Len(vs) :
           IsFormattedValue(vs[i]) =>
               vs[i].conversion = NoConversion /\ vs[i].format_spec = NullNode

\* C23: for a raw f-string body parsed with success at recurse_lvl 0, with no
\* "=", conversion or format spec, the literal pieces with their braces
\* doubled again and the expressions' bytes in braces, in the order emitted,
\* are the body byte for byte.
C23_RoundTrip ==
    (OneFstringDone /\ raw /\ err = "" /\ ret.type = "JoinedStr" /\ PlainFields(ret.values)) =>
        Rebuild(ret.values) = tokens[1].text

\* A raw body of a doubled brace and an expression was parsed.
C23_Witness ==
    /\ OneFstringDone /\ raw /\ err = "" /\ ret.type = "JoinedStr"
    /\ PlainFields(ret.values)
    /\ Len(ret.values) = 2
    /\ IsConstant(ret.values[1]) /\ IsFormattedValue(ret.values[2])
    /\ "{" \in {ret.values[1].value[i] : i \in 1..Len(ret.values[1].value)}

\* The literal scanner is at its normal exit, after the loop, with result 0.
LiteralNormalExit == pc = "find_literal" /\ find_literal_step.k = "break"

\* The literal scanner has returned 0 to its caller.
LiteralReturned0 == pc = "find_literal_and_expr" /\ loc.result = 0

\* What does hold: a cursor returned with status 0 is at end or on a brace,
\* since the decoder rejects every literal whose scan ended elsewhere.
Returned0OnBraceOrEnd ==
    LiteralReturned0 => str = End \/ (str < End /\ At(str) \in {"{", "}"})

\* C24: when the literal scanner reaches its normal exit, the cursor it
\* hands back is at the end of the body or on a "{" or "}", in raw and in
\* non-raw mode, whatever the escapes of the literal.
C24_CursorOnBraceOrEnd ==
    LiteralNormalExit =>
        find_literal_step.s = End
            \/ (find_literal_step.s < End /\ At(find_literal_step.s) \in {"{", "}"})

\* The scanner's assertion failed after \N and a byte that is no brace: the
\* cursor handed back is on a byte of text.
C24_Witness ==
    /\ pc = "aborted"
    /\ ~raw
    /\ lvl = 0
    /\ str < End /\ At(str) \notin {"{", "}"}
    /\ str >= 4 /\ At(str - 3) = BACKSLASH /\ At(str - 2) = "N" /\ At(str - 1) # "{"

\* ConcatFstring returns success from the checks after its loop.
ConcatSucceeds == pc = "concat_end" /\ pc' \in {"idle", "find_expr_close"}

\* C25: ConcatFstring returns success only if, when its loop has ended, the
\* cursor is within one byte of end at recurse_lvl 0 or on a "}" at a deeper
\* level; otherwise it fails, with "unexpected end of string" at level 0 and
\* "expecting '}'" at a deeper level.
C25_EndChecks ==
    [][pc = "concat_end" =>
          /\ ConcatSucceeds =>
                \/ lvl = 0 /\ str >= End - 1
                \/ lvl >= 1 /\ At(str) = "}"
          /\ (lvl = 0 /\ str < End - 1) =>
                pc' = "failed" /\ err' = "f-string: unexpected end of string"
          /\ (lvl >= 1 /\ At(str) # "}") =>
                pc' = "failed" /\ err' = "f-string: expecting '}'"
          /\ ConcatSucceeds \/ pc' = "failed"
      ]_vars

\* A format spec ended on its closing brace and ConcatFstring returned it to
\* the expression scanner.
C25_Witness ==
    /\ pc = "find_expr_close"
    /\ lvl = 0
    /\ At(str) = "}"
    /\ loc.format_spec # NullNode
    /\ err = ""

\* The next operation is ConcatAndDel with an empty text.
EmptyNext == pc = "idle" /\ tk < Len(tokens) /\ ~tokens[tk + 1].f /\ tokens[tk + 1].text = <<>>

\* C26: between the operations on the state, and throughout them, last_str
\* is absent or a text that is not empty; and ConcatAndDel with an empty
\* text leaves last_str, the expression list and fmode as they were.
C26_LastStrNotEmpty ==
    /\ [](IsNull(state.last_str) \/ Len(Val(state.last_str)) > 0)
    /\ [](FstringParser_ConcatAndDel(state, <<>>) = state)
    /\ [][EmptyNext => state' = state /\ tk' = tk + 1]_vars

\* An empty text was concatenated to a state that holds a pending literal,
\* an expression and fmode.
C26_Witness ==
    /\ pc = "idle"
    /\ tk >= 2 /\ ~tokens[tk].f /\ tokens[tk].text = <<>>
    /\ state.fmode
    /\ ~IsNull(state.last_str)
    /\ state.expr_list.size > 0

\* The expression scanner is at an iteration of its loop.
AtExprIteration == pc = "find_expr_loop" /\ str < End

\* C27: at every iteration of the expression scanner's loop quote_char is
\* set exactly when string_type is 1 or 3; while it is set no byte changes
\* nested_depth or ends the expression; and the string is left only at a
\* byte equal to quote_char, for string_type 3 only when two more of them
\* follow within the body.
C27_StringState ==
    /\ [](pc \in {"find_expr_loop", "find_expr_end"} =>
             /\ loc.string_type \in {0, 1, 3}
             /\ (loc.quote_char # NUL) <=> (loc.string_type \in {1, 3}))
    /\ [][(AtExprIteration /\ loc.quote_char # NUL) =>
             /\ pc' \in {"find_expr_loop", "failed"}
             /\ pc' = "failed" => At(str) = BACKSLASH
             /\ pc' = "find_expr_loop" =>
                   /\ loc'.nested_depth = loc.nested_depth
                   /\ loc'.quote_char \in {loc.quote_char, NUL}
                   /\ loc'.quote_char = NUL =>
                         /\ At(str) = loc.quote_char
                         /\ loc.string_type = 3 =>
                               /\ str + 2 < End
                               /\ At(str + 1) = loc.quote_char
                               /\ At(str + 2) = loc.quote_char
                               /\ str' = str + 3
         ]_vars

\* Past a triple-quoted string: its closing quotes ended it, the third of
\* its opening quotes did not.
C27_Witness ==
    /\ pc = "find_expr_loop"
    /\ loc.quote_char = NUL /\ loc.string_type = 0
    /\ str = 8
    /\ \A i \in 2..7 : At(i) = SQUOTE

\* The expression about to be compiled is blank.
BlankExpression ==
    \A i \in loc.expr_start..(loc.expr_end - 1) : At(i) \in {" ", "\t", "\n", "\f"}

\* The errors of the checks made after the expression: "=", the conversion.
TailErrors ==
    {"f-string: self documenting expressions are only supported in Python 3.8 and greater",
     "f-string: invalid conversion character: expected 's', 'r', or 'a'"}

\* C28: the expression is compiled before "=", the conversion and the format
\* spec are looked at: a blank expression fails as an empty expression
\* whatever follows it, a failed compilation reports the expression's error,
\* and the later checks are made, and their errors raised, only after an
\* expression that compiled.
C28_ExpressionFirst ==
    /\ [][/\ (pc = "compile_expr" /\ BlankExpression) =>
                \/ pc' = "aborted"
                \/ pc' = "failed" /\ err' = "f-string: empty expression not allowed"
          /\ (pc = "compile_expr" /\ pc' = "failed") =>
                err' \in {"f-string: empty expression not allowed", "invalid syntax"}
          /\ (pc # "find_expr_tail" /\ pc' = "find_expr_tail") =>
                pc = "compile_expr" /\ ~BlankExpression
          /\ (pc # "failed" /\ pc' = "failed" /\ err' \in TailErrors) =>
                pc = "find_expr_tail"
         ]_vars
    /\ [](pc = "find_expr_tail" => loc.simple_expression.type = "Expr")

\* A blank expression followed by a conversion that is not one: the error is
\* the expression's.
C28_Witness ==
    /\ pc = "failed"
    /\ err = "f-string: empty expression not allowed"
    /\ At(str) = "!"
    /\ At(str + 1) = "x"

\* allocated is EXPRLIST_N_CACHED times a power of two.
RECURSIVE CachedTimesPowerOfTwo(_)
CachedTimesPowerOfTwo(n) ==
    \/ n = EXPRLIST_N_CACHED
    \/ n > EXPRLIST_N_CACHED /\ n % 2 = 0 /\ CachedTimesPowerOfTwo(n \div 2)

\* C29: after ExprList_Init and n successful calls of ExprList_Append the
\* buffer l->p points to holds the n nodes in the order given, size is n and
\* at most allocated, allocated is EXPRLIST_N_CACHED times a power of two,
\* twice the size as it was when the buffer grew, and the buffer inside the
\* struct is in use exactly while allocated is EXPRLIST_N_CACHED.
C29_ListHoldsAppended ==
    /\ [](XlLive =>
             /\ xl.list.size = Len(xl.appended)
             /\ Len(Pointee(xl.list)) = xl.list.allocated
             /\ \A i \in 1..xl.list.size : Pointee(xl.list)[i] = xl.appended[i]
             /\ xl.list.size <= xl.list.allocated
             /\ CachedTimesPowerOfTwo(xl.list.allocated)
             /\ (xl.list.p = "data") <=> (xl.list.allocated = EXPRLIST_N_CACHED))
    /\ [][(XlLive /\ XlLive' /\ xl'.list.allocated # xl.list.allocated) =>
             xl'.list.allocated = 2 * xl.list.size]_vars

\* The buffer has grown twice and holds every node given to it.
C29_Witness ==
    /\ XlLive
    /\ xl.list.allocated = 4 * EXPRLIST_N_CACHED
    /\ xl.list.size = 2 * EXPRLIST_N_CACHED + 1
    /\ xl.list.p = "heap"
    /\ ExprList_Items(xl.list) = xl.appended
    /\ \E i, j \in 1..xl.list.size : xl.appended[i] # xl.appended[j]

\* The source is UTF-8: every run of bytes with the high bit set decodes.
RECURSIVE ValidFrom(_, _)
ValidFrom(src, i) ==
    IF i > Len(src) THEN TRUE
    ELSE IF ~HighBit(src[i]) THEN ValidFrom(src, i + 1)
    ELSE LET e == decode_utf8_end(src, i)
         IN  PyUnicode_DecodeUTF8(SubSeq(src, i, e - 1)) # -1 /\ ValidFrom(src, e)

\* The bytes the first pass may write.
AsciiWritten == {"a", BACKSLASH, "u", "U", "0", "5", "c", "e", "4"}

\* C30: for every source, and so for every source that is UTF-8, the first
\* pass writes ASCII bytes only and at most 6 * len of them: it never writes
\* past its buffer and its assertion never fails.
C30_NoOverflow ==
    /\ \A i \in 1..Len(dec.buf) : dec.buf[i] \in AsciiWritten
    /\ Len(dec.buf) <= 6 * Len(dec.src)
    /\ ~dec.overflow
    /\ dec.pc # "aborted"
    /\ (dec.pc = "returned" /\ dec.v = "NULL") => ~ValidFrom(dec.src, 1)

\* The pass has ended on a source of a backslash before a character of two
\* bytes and a backslash at the end: 6 + 10 + 6 bytes written for 4.
C30_Witness ==
    /\ dec.pc = "returned"
    /\ dec.src = <<BACKSLASH, LEAD2, CONT, BACKSLASH>>
    /\ dec.v = "object"
    /\ Len(dec.buf) = 22

\* What does hold: the allocated buffer is freed once at most, and exactly
\* once by the time the state is finished or dropped; a finished state holds
\* no pending literal and no buffer.
BufferFreedOnce ==
    /\ xl.frees <= 1
    /\ xl.pc \in {"finished", "dropped"} =>
          /\ xl.frees = (IF Len(xl.appended) > EXPRLIST_N_CACHED THEN 1 ELSE 0)
          /\ ~xl.last_str
          /\ xl.list.heap = <<>> /\ xl.list.p = "NULL"

\* C31: no operation is entered on a list that is deallocated or has no
\* buffer: the assertions size >= 0 and p != NULL hold at the entry of every
\* operation, also after a failed allocation in ExprList_Append and a failed
\* sequence in Finish; an allocated buffer is freed exactly once, and a
\* finished state holds neither a pending literal nor a buffer.
C31_NoOperationOnDeadList ==
    /\ ~xl.dead_entry
    /\ xl.pc # "aborted"
    /\ BufferFreedOnce

\* FstringParser_Dealloc was entered, from Finish's `error:`, on a list that
\* ExprList_Finish had deallocated when its sequence could not be allocated.
C31_Witness ==
    /\ xl.pc = "aborted"
    /\ xl.dead_entry
    /\ xl.list.size = -1
    /\ xl.list.p = "NULL"
    /\ xl.frees = 1

\* The indexes of the bytes one iteration of fstring_find_literal's loop
\* reads, entered at s0 < end.
LiteralReads(s0) ==
    LET esc == ~raw /\ At(s0) = BACKSLASH /\ s0 + 1 < End
        ch == IF esc THEN At(s0 + 1) ELSE At(s0)
        s == IF esc THEN s0 + 2 ELSE s0 + 1
    IN  {s0}
        \cup (IF esc THEN {s0 + 1} ELSE {})
        \cup (IF esc /\ ch = "N"
              THEN IF s < End
                   THEN {s} \cup (IF At(s) = "{" THEN (s + 1)..(SkipName(s + 1) - 1) ELSE {})
                   ELSE {}
              ELSE IF esc /\ ch = "{" /\ escalate
              THEN {}
              ELSE IF ch \in {"{", "}"} /\ lvl = 0 /\ s < End THEN {s} ELSE {})

\* The indexes fstring_find_literal reads after its loop, left at s: the
\* second assertion's, where the first holds, and the literal's.
LiteralExitReads(k, s) ==
    (IF k = "break" /\ s < End THEN {s} ELSE {})
    \cup (IF k \in {"break", "doubled"} THEN loc.literal_start..(s - 1) ELSE {})

\* The indexes one iteration of fstring_find_expr's loop reads at i < end.
ExprReads(i, l) ==
    LET ch == At(i)
        atquote == IF l.quote_char # NUL THEN ch = l.quote_char /\ l.string_type = 3
                   ELSE ch \in {SQUOTE, DQUOTE}
        atend == /\ l.quote_char = NUL
                 /\ l.nested_depth = 0
                 /\ ch \in {"!", ":", "}", "=", ">", "<"}
    IN  {i}
        \cup (IF ch = BACKSLASH THEN {}
              ELSE IF atquote
              THEN IF i + 2 < End
                   THEN {i + 1} \cup (IF At(i + 1) = ch THEN {i + 2} ELSE {})
                   ELSE {}
              ELSE IF atend /\ i + 1 < End THEN {i + 1}
              ELSE {})

\* The indexes fstring_find_expr reads from the `=` check to the format
\* spec's start, with *str at i.
TailReads(i) ==
    LET eq == At(i) = "="
        s1 == IF eq THEN SkipSpace(i + 1) ELSE i
        bang == At(s1) = "!"
        s3 == IF bang THEN s1 + 2 ELSE s1
    IN  {i}
        \cup (IF eq /\ feature_version < 8 THEN {}
              ELSE (IF eq THEN (i + 1)..s1 ELSE {})
                   \cup {s1}
                   \cup (IF bang /\ s1 + 1 < End THEN {s1 + 1} ELSE {})
                   \cup (IF bang /\ (s1 + 1 >= End \/ At(s1 + 1) \notin {"s", "r", "a"}) THEN {}
                         ELSE IF s3 < End THEN {s3} ELSE {}))

\* The indexes of the bytes the program's next step reads.
Reads ==
    CASE pc = "find_literal" ->
             (IF loc.s < End THEN LiteralReads(loc.s) ELSE {})
             \cup LiteralExitReads(find_literal_step.k, find_literal_step.s)
      [] pc = "find_literal_and_expr" ->
             IF loc.result # 1 /\ str < End THEN {str} ELSE {}
      [] pc = "find_expr" -> IF NestedTooDeeply(lvl) THEN {} ELSE {str}
      [] pc = "find_expr_loop" -> IF str < End THEN ExprReads(str, loc) ELSE {}
      [] pc = "compile_expr" -> (loc.expr_start - 1)..loc.expr_end
      [] pc = "find_expr_tail" -> TailReads(str)
      [] pc = "find_expr_close" -> IF str < End THEN {str} ELSE {}
      [] pc = "concat_end" -> IF lvl # 0 THEN {str} ELSE {}
      [] OTHER -> {}

\* The program is inside a ConcatFstring call, or has just left it.
InConcatFstring ==
    pc \in {"find_literal", "find_literal_and_expr", "find_expr", "find_expr_loop",
            "find_expr_end", "compile_expr", "find_expr_tail", "find_expr_close",
            "concat_body", "concat_end", "failed", "aborted"}

\* C32: throughout a ConcatFstring call on a body whose byte at end is the
\* closing quote, the cursor and the literal scanner's s lie between the
\* body's start and end, the expression scanner's loop has
\* expr_start <= cursor, and cursor < end in each of its iterations, and no
\* byte before the body or beyond end is read.
C32_CursorWithinBody ==
    InConcatFstring =>
        /\ str \in 1..End
        /\ pc = "find_literal" => loc.s \in 1..End
        /\ pc = "find_literal_and_expr" => loc.s \in 1..End /\ str \in loc.s..(loc.s + 1)
        /\ pc = "find_expr_loop" => loc.expr_start <= str
        /\ pc \in {"find_expr_end", "compile_expr"} => loc.expr_start <= str
        /\ \A i \in Reads : i \in 1..End

\* The blanks after "=" run up to the closing quote, which is read and ends
\* the skipping.
C32_Witness ==
    /\ pc = "find_expr_tail"
    /\ At(str) = "="
    /\ Py_ISSPACE(At(str + 1))
    /\ SkipSpace(str + 1) = End
    /\ End \in Reads

\* parsestr returned failure.
ParsestrFailed == parsed # NotParsed /\ parsed.ret = -1

\* A failed parsestr leaves no result and no f-string range.
FailureLeavesNoResult ==
    ParsestrFailed => IsNull(parsed.result) /\ IsNull(parsed.fstr)

\* C33: whenever parsestr returns failure its out-parameters own nothing:
\* result and the regex flags are both absent, flags created before the
\* failure having been released.
C33_FailureLeavesNothing ==
    ParsestrFailed => IsNull(parsed.result) /\ IsNull(parsed.reflags)

\* A regex token whose flags were decoded and whose body then fails to
\* decode: parsestr returns -1 and the flags object is still in *reflags.
C33_Witness ==
    /\ ParsestrFailed
    /\ parsed.remode
    /\ parsed.err = "decoder"
    /\ IsNull(parsed.result)
    /\ parsed.reflags = Some(<<"i">>)

====
